---- MODULE Spec2Model ----
(***************************************************************************)
(* Note graph and voice-note ingestion pipeline of memex-for-my-thoughts.  *)
(*                                                                         *)
(* convex/canvas.ts      node / edge CRUD (each mutation is one Convex     *)
(*                       transaction: it commits whole or not at all)      *)
(* convex/schema.ts      from line 109, the voice-notes functions: create, *)
(*                       updateStatus, get and the `process`               *)
(*                       action (an action is NOT a transaction: every     *)
(*                       runQuery / runMutation / fetch inside it is a     *)
(*                       separate step that other callers interleave with) *)
(* src/app/page.tsx      handleAddToCanvas (client-side similarity linking)*)
(***************************************************************************)
EXTENDS Integers, Sequences, FiniteSets, TLC

\* ------------------------------------------------------------------ bounds
MaxNodes      == 3   \* node ids ever allocated (SpecLinking: MaxLinkNodes)
MaxEdges      == 2   \* edge ids ever allocated (SpecLinking: MaxLinkEdges)
MaxVoiceNotes == 1   \* voice-note ids ever allocated
MaxRuns       == 2   \* invocations of process
MaxConcepts   == 2   \* concepts returned by one extraction call
MaxAdds       == 1   \* invocations of handleAddToCanvas
MaxClock      == 1   \* ticks of the clock
MaxNotes      == 2   \* node ids allocated while notes are written and read
MaxNoteEdges  == 1   \* edge ids allocated while notes are written and read
MaxTitleLen   == 4   \* characters of a content handed to extractNoteTitle
MaxTokens     == 4   \* tokens of a content handed to the link extractors
MaxConcurrent == 2   \* voice notes processed at the same time
MaxCalls      == 2   \* createNode calls of the note editor not yet resolved
MaxSaves      == 1   \* updateNode calls of the note editor not yet run
MaxNeighbours == 4   \* embedded notes on the canvas before a linking invocation
MaxLinkNodes  == 6   \* node ids ever allocated under SpecLinking
MaxLinkEdges  == 4   \* edge ids ever allocated under SpecLinking

\* ------------------------------------------------------- program constants
RelatedLimit == 3    \* limit: 3 passed to findRelated

VoiceIds == 1..MaxVoiceNotes

\* an optional field: <<>> is undefined, <<x>> is the value x
None    == <<>>
Some(x) == <<x>>

\* null entry of related.nodes / undefined sourceId
NoNode  == 0
NoVoice == 0

Users == {"u1", "u2"}

Statuses == {"recording", "uploaded", "transcribing", "processing",
             "completed", "error"}

Range(s) == {s[i] : i \in DOMAIN s}

VARIABLES
  nodes,        \* table canvasNodes: id -> document
  edges,        \* table canvasEdges: id -> document
  nextNodeId,   \* ids are fresh: never reused after a delete
  nextEdgeId,
  voiceNotes,   \* table voiceNotes: id -> document
  runs,         \* invocations of process under way: run id -> its locals
  adds,         \* invocations of handleAddToCanvas under way
  nextRunId,    \* invocations of process started so far, plus one
  nextAddId,
  lastOp,       \* the call that returned or threw in the last step
  now,          \* Date.now(), in ticks
  editor        \* the mounted NoteEditor component: props, state, refs

vars == <<nodes, edges, nextNodeId, nextEdgeId, voiceNotes, runs, adds,
          nextRunId, nextAddId, lastOp, now, editor>>

\* ------------------------------------------------------------ db helpers
\* ctx.db.insert
DbInsert(table, id, doc) == table @@ (id :> doc)

\* ctx.db.delete of a set of documents
DbRemove(table, ids) == [k \in DOMAIN table \ ids |-> table[k]]

\* what lastOp records: the call, its argument, whether it returned (ok) or
\* threw, for deleteNode the number of outgoing / incoming edges it found,
\* and for process the locals of the invocation as it ended
Op(name, id, ok, nOut, nIn) ==
  [op |-> name, id |-> id, ok |-> ok, nOut |-> nOut, nIn |-> nIn, run |-> None]

NoOp == Op("none", 0, TRUE, 0, 0)

\* NoteEditor before any note is opened. noteId is the prop (NoNode: none
\* yet), loaded whether the getNodeById query of noteId has answered,
\* noteAnswer an answer of that query on its way to the component,
\* prevNoteId the ref of the note-switch effect, text the HTML of the
\* TipTap editor, timer whether the save timeout is pending, saves the
\* updateNode calls sent and not yet run, pendingLinkTitle the state of
\* that name, linkedLoaded / linkedNote the findNoteByTitle query as the
\* component has it (undefined, or its answer), linkedAnswer an answer of
\* that query on its way to the component, calls the createNode calls of
\* handleNavigation not yet resolved (id: NoNode until the mutation has
\* run). For the record: owner, the note the text was loaded from, and
\* issued, the createNode calls handleNavigation made since the last click.
NoEditor ==
  [noteId |-> NoNode, loaded |-> FALSE, noteAnswer |-> None,
   prevNoteId |-> NoNode,
   text |-> <<>>, owner |-> NoNode, timer |-> FALSE, saves |-> <<>>,
   pendingLinkTitle |-> None, linkedLoaded |-> FALSE, linkedNote |-> None,
   linkedAnswer |-> None, calls |-> <<>>, issued |-> 0]

\* ids a caller can name: every id the table ever handed out (v.id() checks
\* the table of an id, not that the document still exists)
IssuedNodeIds  == 1..(nextNodeId - 1)
IssuedEdgeIds  == 1..(nextEdgeId - 1)

\* =================================================== convex/canvas.ts
\* the x of a node placed by its caller: the pipeline and handleAddToCanvas
\* draw it at random, the note editor passes 0; one value stands for all
GridX == 0

ClientNodeTypes == {"text", "note"}
ClientContents  == {"x"}
ClientLabels    == {None, Some("ref")}

\* (a createNode that drops sourceType and sourceId)
NodeDocWithoutSource(type, content, x, sourceType, sourceId, outgoingLinks) ==
  [type          |-> type,
   content       |-> content,
   x             |-> x,
   sourceType    |-> "manual",
   sourceId      |-> NoVoice,
   outgoingLinks |-> outgoingLinks,
   embedding     |-> None,
   updatedAt     |-> now]

\* createNode handler: the inserted document
NodeDoc(type, content, x, sourceType, sourceId, outgoingLinks) ==
  [type          |-> type,
   content       |-> content,
   x             |-> x,
   sourceType    |-> IF sourceType = None THEN "manual" ELSE sourceType[1],
   sourceId      |-> sourceId,
   outgoingLinks |-> outgoingLinks,
   embedding     |-> None,
   updatedAt     |-> now]

\* createEdge handler: the inserted document
EdgeDoc(source, target, label) ==
  [source |-> source, target |-> target, label |-> label]

\* deleteNode: the by_source and by_target index reads
SourceEdges(id) == {e \in DOMAIN edges : edges[e].source = id}
TargetEdges(id) == {e \in DOMAIN edges : edges[e].target = id}

\* (a cascade that forgets the by_target read)
DeleteNodeSourceOnly(id) == SourceEdges(id)

\* deleteNode: the edges the loop over [...sourceEdges, ...targetEdges] deletes
DeleteNodeEdgeSet(id) == SourceEdges(id) \cup TargetEdges(id)

\* (a deleteNode that throws on the double delete of a self-loop only)
DeleteNodeThrowsSelfLoopOnly(id) == SourceEdges(id) \cap TargetEdges(id) # {}

\* deleteNode throws, and the transaction rolls back, when ctx.db.delete is
\* handed a document that is not there: an edge listed in both index reads
\* (a self-loop) is deleted twice, and args.id may name no node
DeleteNodeThrows(id) ==
  \/ SourceEdges(id) \cap TargetEdges(id) # {}
  \/ id \notin DOMAIN nodes

\* the edges table after deleteNode threw: the mutation is one transaction,
\* the deletions made before the throw are dropped with it
DeleteNodeThrown(id) == edges

CreateNode(type, content, x, outgoingLinks) ==
  /\ nextNodeId <= MaxNodes
  /\ nodes' = DbInsert(nodes, nextNodeId,
                       NodeDoc(type, content, x, None, NoVoice, outgoingLinks))
  /\ nextNodeId' = nextNodeId + 1
  /\ lastOp' = NoOp
  /\ UNCHANGED <<editor, now, edges, nextEdgeId, voiceNotes, runs, adds, nextRunId, nextAddId>>

UpdateNodeEmbedding(id, embedding) ==
  /\ id \in DOMAIN nodes     \* ctx.db.patch throws on a missing document
  /\ nodes' = [nodes EXCEPT ![id].embedding = Some(embedding)]
  /\ lastOp' = NoOp
  /\ UNCHANGED <<editor, now, edges, nextNodeId, nextEdgeId, voiceNotes, runs, adds, nextRunId, nextAddId>>

DeleteNode(id) ==
  /\ IF DeleteNodeThrows(id)
       THEN /\ lastOp' = Op("deleteNode", id, FALSE, 0, 0)
            /\ edges' = DeleteNodeThrown(id)
            /\ UNCHANGED nodes
       ELSE /\ edges' = DbRemove(edges, DeleteNodeEdgeSet(id))
            /\ nodes' = DbRemove(nodes, {id})
            /\ lastOp' = Op("deleteNode", id, TRUE,
                            Cardinality(SourceEdges(id)),
                            Cardinality(TargetEdges(id)))
  /\ UNCHANGED <<editor, now, nextNodeId, nextEdgeId, voiceNotes, runs, adds, nextRunId, nextAddId>>

CreateEdge(source, target, label) ==
  /\ nextEdgeId <= MaxEdges
  /\ edges' = DbInsert(edges, nextEdgeId, EdgeDoc(source, target, label))
  /\ nextEdgeId' = nextEdgeId + 1
  /\ lastOp' = NoOp
  /\ UNCHANGED <<editor, now, nodes, nextNodeId, voiceNotes, runs, adds, nextRunId, nextAddId>>

DeleteEdge(id) ==
  /\ id \in DOMAIN edges     \* ctx.db.delete throws on a missing document
  /\ edges' = DbRemove(edges, {id})
  /\ lastOp' = NoOp
  /\ UNCHANGED <<editor, now, nodes, nextNodeId, nextEdgeId, voiceNotes, runs, adds, nextRunId, nextAddId>>

\* time passes between two calls
Tick ==
  /\ now < MaxClock
  /\ now' = now + 1
  /\ lastOp' = NoOp
  /\ UNCHANGED <<editor, nodes, edges, nextNodeId, nextEdgeId, voiceNotes, runs, adds,
                 nextRunId, nextAddId>>

\* what lastOp records of a call whose argument and result a claim reads
Call(name, arg, ok, out) == [op |-> name, arg |-> arg, ok |-> ok, out |-> out]

\* updateNode args besides id: each of content, x, outgoingLinks is undefined
\* (None) or given
UpdateArgs(content, x, outgoingLinks) ==
  [content |-> content, x |-> x, outgoingLinks |-> outgoingLinks]

\* (a patch that leaves updatedAt alone when no field is given)
UpdateNodePatchOnlyWhenGiven(doc, args) ==
  [doc EXCEPT
     !.content       = IF args.content # None THEN args.content[1] ELSE @,
     !.x             = IF args.x # None THEN args.x[1] ELSE @,
     !.outgoingLinks = IF args.outgoingLinks # None THEN args.outgoingLinks ELSE @,
     !.updatedAt     = IF args = UpdateArgs(None, None, None) THEN @ ELSE now]

\* (a patch that drops the embedding when the content is replaced)
UpdateNodePatchDropsEmbedding(doc, args) ==
  [doc EXCEPT
     !.content       = IF args.content # None THEN args.content[1] ELSE @,
     !.x             = IF args.x # None THEN args.x[1] ELSE @,
     !.outgoingLinks = IF args.outgoingLinks # None THEN args.outgoingLinks ELSE @,
     !.embedding     = IF args.content # None THEN None ELSE @,
     !.updatedAt     = now]

\* updateNode handler: the fields of filteredUpdates (those not undefined)
\* and updatedAt, patched onto the document
UpdateNodePatch(doc, args) ==
  [doc EXCEPT
     !.content       = IF args.content # None THEN args.content[1] ELSE @,
     !.x             = IF args.x # None THEN args.x[1] ELSE @,
     !.outgoingLinks = IF args.outgoingLinks # None THEN args.outgoingLinks ELSE @,
     !.updatedAt     = now]

\* updateNode: ctx.db.patch throws on a missing document
UpdateNode(id, args) ==
  /\ IF id \notin DOMAIN nodes
       THEN /\ lastOp' = Call("updateNode", [id |-> id, args |-> args], FALSE, None)
            /\ UNCHANGED nodes
       ELSE /\ nodes' = [nodes EXCEPT ![id] = UpdateNodePatch(@, args)]
            /\ lastOp' = Call("updateNode", [id |-> id, args |-> args], TRUE, None)
  /\ UNCHANGED <<editor, now, edges, nextNodeId, nextEdgeId, voiceNotes, runs, adds,
                 nextRunId, nextAddId>>

\* ------------------------------------------------ text, as characters
\* a string is the sequence of its characters
Min(S) == CHOOSE m \in S : \A k \in S : m <= k

\* \s, and what trim() strips
Whitespace == {" ", "\t", "\n", "\r"}

\* toLowerCase, for the letters of the texts used here
LowerOf == ("A" :> "a") @@ ("B" :> "b") @@ ("T" :> "t") @@ ("U" :> "u")
ToLowerCase(s) ==
  [i \in DOMAIN s |-> IF s[i] \in DOMAIN LowerOf THEN LowerOf[s[i]] ELSE s[i]]

\* content.split("\n")[0]
FirstLine(s) ==
  LET nl == {i \in 1..Len(s) : s[i] = "\n"}
  IN  IF nl = {} THEN s ELSE SubSeq(s, 1, Min(nl) - 1)

\* replace(/<[^>]*>/g, ""): a "<" with a ">" somewhere after it is removed
\* together with everything up to the first such ">"
RECURSIVE StripTags(_)
StripTags(s) ==
  LET close == {j \in 1..Len(s) : s[j] = ">"}
      open  == {i \in 1..Len(s) : s[i] = "<" /\ \E j \in close : j > i}
  IN  IF open = {} THEN s
      ELSE LET i == Min(open)
               j == Min({k \in close : k > i})
           IN  SubSeq(s, 1, i - 1) \o StripTags(SubSeq(s, j + 1, Len(s)))

RECURSIVE TrimStart(_)
TrimStart(s) ==
  IF s # <<>> /\ Head(s) \in Whitespace THEN TrimStart(Tail(s)) ELSE s

RECURSIVE TrimEnd(_)
TrimEnd(s) ==
  IF s # <<>> /\ s[Len(s)] \in Whitespace
    THEN TrimEnd(SubSeq(s, 1, Len(s) - 1)) ELSE s

\* trim()
Trim(s) == TrimEnd(TrimStart(s))

\* replace(/^#\s*/, "")
StripHeading(s) ==
  IF s # <<>> /\ Head(s) = "#" THEN TrimStart(Tail(s)) ELSE s

\* the title as findNoteByTitle computes it (lines 212-215), before any
\* fallback
NoteTitle(content) == Trim(StripHeading(StripTags(FirstLine(content))))

Untitled == <<"U", "n", "t", "i", "t", "l", "e", "d">>

\* (an extractNoteTitle without the fallback)
ExtractNoteTitleNoFallback(content) == NoteTitle(content)

\* extractNoteTitle (lines 223-227)
ExtractNoteTitle(content) ==
  IF NoteTitle(content) = <<>> THEN Untitled ELSE NoteTitle(content)

\* where the run of characters other than stop that starts at i ends: the
\* index of the first stop at or after i, or Len(s) + 1
RunEnd(s, i, stop) ==
  LET at == {k \in i..Len(s) : s[k] = stop}
  IN  IF at = {} THEN Len(s) + 1 ELSE Min(at)

\* /\[\[([^\]]+)\]\]/ matches at i
RawMatches(s, i) ==
  /\ i + 1 <= Len(s) /\ s[i] = "[" /\ s[i + 1] = "["
  /\ LET k == RunEnd(s, i + 2, "]")
     IN  k > i + 2 /\ k + 1 <= Len(s) /\ s[k + 1] = "]"

\* the captures of rawRegex.exec, from index `from` on, in order
RECURSIVE RawCaptures(_, _)
RawCaptures(s, from) ==
  LET starts == {i \in from..Len(s) : RawMatches(s, i)}
  IN  IF starts = {} THEN <<>>
      ELSE LET i == Min(starts)
               k == RunEnd(s, i + 2, "]")
           IN  <<SubSeq(s, i + 2, k - 1)>> \o RawCaptures(s, k + 2)

DataTitleAttr == <<"d", "a", "t", "a", "-", "t", "i", "t", "l", "e", "=", "\"">>

\* /data-title="([^"]+)"/ matches at i
HtmlMatches(s, i) ==
  LET n == Len(DataTitleAttr)
  IN  /\ i + n - 1 <= Len(s)
      /\ SubSeq(s, i, i + n - 1) = DataTitleAttr
      /\ LET k == RunEnd(s, i + n, "\"")
         IN  k > i + n /\ k <= Len(s)

\* the captures of htmlRegex.exec, from index `from` on, in order
RECURSIVE HtmlCaptures(_, _)
HtmlCaptures(s, from) ==
  LET n == Len(DataTitleAttr)
      starts == {i \in from..Len(s) : HtmlMatches(s, i)}
  IN  IF starts = {} THEN <<>>
      ELSE LET i == Min(starts)
               k == RunEnd(s, i + n, "\"")
           IN  <<SubSeq(s, i + n, k - 1)>> \o HtmlCaptures(s, k + 1)

Includes(list, x) == \E i \in DOMAIN list : list[i] = x

\* the second loop: push each title that links does not include yet
RECURSIVE PushNew(_, _)
PushNew(links, titles) ==
  IF titles = <<>> THEN links
  ELSE PushNew(IF Includes(links, Head(titles)) THEN links
               ELSE Append(links, Head(titles)),
               Tail(titles))

MapLower(titles) == [i \in DOMAIN titles |-> ToLowerCase(titles[i])]

\* extractWikiLinksFromContent (lines 230-250): every [[...]] capture,
\* lower-cased, is pushed; a data-title capture, lower-cased, only when new
ExtractWikiLinksFromContent(content) ==
  PushNew(MapLower(RawCaptures(content, 1)), MapLower(HtmlCaptures(content, 1)))

\* extractWikiLinks of the editor (lib/tiptap/wiki-link): the same two loops
\* without toLowerCase
ExtractWikiLinks(content) ==
  PushNew(RawCaptures(content, 1), HtmlCaptures(content, 1))

\* ------------------------------ lib/tiptap/wiki-link, the conversion
\* the replacement of one [[title]] (convertWikiLinksToHTML, first step)
WikiLinkSpan(title) ==
  <<
    "<", "s", "p", "a", "n", " ", "d", "a", "t", "a", "-", "w", "i", "k",
    "i", "-", "l", "i", "n", "k", "=", "\"", "t", "r", "u", "e", "\"", " ",
    "d", "a", "t", "a", "-", "t", "i", "t", "l", "e", "=", "\"" >>
  \o title \o <<
    "\"", " ", "c", "l", "a", "s", "s", "=", "\"", "w", "i", "k", "i", "-",
    "l", "i", "n", "k", " ", "t", "e", "x", "t", "-", "p", "r", "i", "m",
    "a", "r", "y", " ", "h", "o", "v", "e", "r", ":", "t", "e", "x", "t",
    "-", "p", "r", "i", "m", "a", "r", "y", "/", "8", "0", " ", "c", "u",
    "r", "s", "o", "r", "-", "p", "o", "i", "n", "t", "e", "r", " ", "f",
    "o", "n", "t", "-", "m", "e", "d", "i", "u", "m", " ", "u", "n", "d",
    "e", "r", "l", "i", "n", "e", " ", "d", "e", "c", "o", "r", "a", "t",
    "i", "o", "n", "-", "p", "r", "i", "m", "a", "r", "y", "/", "5", "0",
    " ", "h", "o", "v", "e", "r", ":", "d", "e", "c", "o", "r", "a", "t",
    "i", "o", "n", "-", "p", "r", "i", "m", "a", "r", "y", "\"", ">", "[",
    "[" >>
  \o title \o <<"]", "]", "<", "/", "s", "p", "a", "n", ">">>

\* text.replace(/\[\[([^\]]+)\]\]/g, span)
RECURSIVE ReplaceWikiLinks(_)
ReplaceWikiLinks(s) ==
  LET starts == {i \in 1..Len(s) : RawMatches(s, i)}
  IN  IF starts = {} THEN s
      ELSE LET i == Min(starts)
               k == RunEnd(s, i + 2, "]")
           IN  SubSeq(s, 1, i - 1) \o WikiLinkSpan(SubSeq(s, i + 2, k - 1))
               \o ReplaceWikiLinks(SubSeq(s, k + 2, Len(s)))

\* html.split('\n')
RECURSIVE SplitLines(_)
SplitLines(s) ==
  LET nl == {i \in 1..Len(s) : s[i] = "\n"}
  IN  IF nl = {} THEN <<s>>
      ELSE <<SubSeq(s, 1, Min(nl) - 1)>>
           \o SplitLines(SubSeq(s, Min(nl) + 1, Len(s)))

\* the loop over the lines; listType is "ul", "ol" or, outside a list,
\* "none" (inList is false exactly then). The result is the processed lines
\* joined by ''.
RECURSIVE ConvertLines(_, _)
ConvertLines(lines, listType) ==
  LET StartsWith(t, p) == Len(t) >= Len(p) /\ SubSeq(t, 1, Len(p)) = p
      Slice(t, n) == SubSeq(t, n + 1, Len(t))
      Element(name, inner) ==
        <<"<">> \o name \o <<">">> \o inner \o <<"<", "/">> \o name \o <<">">>
      CloseList == IF listType = "ul" THEN <<"<", "/", "u", "l", ">">>
                   ELSE IF listType = "ol" THEN <<"<", "/", "o", "l", ">">>
                   ELSE <<>>
      \* . matches no line terminator
      Dots(t) == \A i \in DOMAIN t : t[i] \notin {"\n", "\r"}
      \* /^- \[([ x])\] (.*)$/
      TaskMatch(t) ==
        /\ Len(t) >= 6 /\ SubSeq(t, 1, 3) = <<"-", " ", "[">>
        /\ t[4] \in {" ", "x"} /\ SubSeq(t, 5, 6) = <<"]", " ">>
        /\ Dots(Slice(t, 6))
      TaskItem(t) ==
        <<
        "<", "l", "i", " ", "d", "a", "t", "a", "-", "t", "y", "p", "e",
        "=", "\"", "t", "a", "s", "k", "I", "t", "e", "m", "\"", " ", "d",
        "a", "t", "a", "-", "c", "h", "e", "c", "k", "e", "d", "=", "\"" >>
        \o (IF t[4] = "x" THEN <<"t", "r", "u", "e">> ELSE <<"f", "a", "l", "s", "e">>)
        \o <<
        "\"", ">", "<", "l", "a", "b", "e", "l", ">", "<", "i", "n", "p",
        "u", "t", " ", "t", "y", "p", "e", "=", "\"", "c", "h", "e", "c",
        "k", "b", "o", "x", "\"", " " >>
        \o (IF t[4] = "x" THEN <<"c", "h", "e", "c", "k", "e", "d">> ELSE <<>>)
        \o <<
        ">", "<", "s", "p", "a", "n", ">", "<", "/", "s", "p", "a", "n",
        ">", "<", "/", "l", "a", "b", "e", "l", ">", "<", "d", "i", "v",
        ">", "<", "p", ">" >>
        \o Slice(t, 6) \o <<
        "<", "/", "p", ">", "<", "/", "d", "i", "v", ">", "<", "/", "l",
        "i", ">" >>
      \* /^\d+\. (.*)$/
      Digits(t) ==
        LET other == {i \in 1..Len(t) :
                        t[i] \notin {"0", "1", "2", "3", "4", "5", "6", "7", "8", "9"}}
        IN  IF other = {} THEN Len(t) ELSE Min(other) - 1
      OrderedMatch(t) ==
        /\ Digits(t) >= 1 /\ Len(t) >= Digits(t) + 2
        /\ t[Digits(t) + 1] = "." /\ t[Digits(t) + 2] = " "
        /\ Dots(Slice(t, Digits(t) + 2))
      ListItem(inner) == Element(<<"l", "i">>, Element(<<"p">>, inner))
  IN
  IF lines = <<>> THEN CloseList
  ELSE LET line == Head(lines) IN
    IF StartsWith(line, <<"#", "#", "#", " ">>)
      THEN CloseList \o Element(<<"h", "3">>, Slice(line, 4))
           \o ConvertLines(Tail(lines), "none")
    ELSE IF StartsWith(line, <<"#", "#", " ">>)
      THEN CloseList \o Element(<<"h", "2">>, Slice(line, 3))
           \o ConvertLines(Tail(lines), "none")
    ELSE IF StartsWith(line, <<"#", " ">>)
      THEN CloseList \o Element(<<"h", "1">>, Slice(line, 2))
           \o ConvertLines(Tail(lines), "none")
    ELSE IF TaskMatch(line)
      THEN (IF listType # "ul"
              THEN CloseList \o <<
        "<", "u", "l", " ", "d", "a", "t", "a", "-", "t", "y", "p", "e",
        "=", "\"", "t", "a", "s", "k", "L", "i", "s", "t", "\"", ">" >>
              ELSE <<>>)
           \o TaskItem(line) \o ConvertLines(Tail(lines), "ul")
    ELSE IF StartsWith(line, <<"-", " ">>)
      THEN (IF listType # "ul" THEN CloseList \o <<"<", "u", "l", ">">> ELSE <<>>)
           \o ListItem(Slice(line, 2)) \o ConvertLines(Tail(lines), "ul")
    ELSE IF OrderedMatch(line)
      THEN (IF listType # "ol" THEN CloseList \o <<"<", "o", "l", ">">> ELSE <<>>)
           \o ListItem(Slice(line, Digits(line) + 2))
           \o ConvertLines(Tail(lines), "ol")
    ELSE CloseList
         \o (IF Trim(line) = <<>> THEN Element(<<"p">>, <<>>)
                                  ELSE Element(<<"p">>, line))
         \o ConvertLines(Tail(lines), "none")

\* convertWikiLinksToHTML (src/unnamed/part_006 137-234)
ConvertWikiLinksToHTML(text) ==
  ConvertLines(SplitLines(ReplaceWikiLinks(text)), "none")

\* what setContent (useNoteEditor.ts 86-93) hands to the editor: content
\* with a "<" as it is, any other content converted. The editor's HTML is
\* taken to be the HTML it was given.
SetContentHtml(content) ==
  IF \E i \in DOMAIN content : content[i] = "<" THEN content
  ELSE ConvertWikiLinksToHTML(content)

\* ------------------------------------------------ canvas.ts, the queries
\* the documents a query collects come in creation order, that is by id
RECURSIVE InOrder(_)
InOrder(S) ==
  IF S = {} THEN <<>> ELSE <<Min(S)>> \o InOrder(S \ {Min(S)})

\* nodes.filter((n) => n.type === "note")
Notes == {n \in DOMAIN nodes : nodes[n].type = "note"}

\* findNoteByTitle (lines 203-220): the _id of the first note whose title
\* matches, or null (None)
FindNoteByTitle(title) ==
  LET found == {n \in Notes :
                  ToLowerCase(NoteTitle(nodes[n].content)) = ToLowerCase(title)}
  IN  IF title = <<>> \/ found = {} THEN None ELSE Some(Min(found))

\* createDailyNote and findDailyNote (lines 253-291). Date strings are
\* "YYYY-MM-DD"; new Date(dateString) and toLocaleDateString('en-US', ...)
\* (lines 272-274) give the weekday and the long date, here for the dates
\* of DailyDates
Date30 == <<
  "2", "0", "2", "6", "-", "1", "0", "-", "3", "0" >>

Date31 == <<
  "2", "0", "2", "6", "-", "1", "0", "-", "3", "1" >>

DayAndDate(dateString) ==
  IF dateString = Date30
    THEN <<
      "F", "r", "i", "d", "a", "y", ",", " ", "O", "c", "t", "o", "b", "e",
      "r", " ", "3", "0", ",", " ", "2", "0", "2", "6" >>
    ELSE <<
      "S", "a", "t", "u", "r", "d", "a", "y", ",", " ", "O", "c", "t", "o",
      "b", "e", "r", " ", "3", "1", ",", " ", "2", "0", "2", "6" >>

\* the template of line 277; it holds no line break
DailyNoteContent(dateString) ==
  <<"<", "h", "1", ">">> \o dateString \o <<"<", "/", "h", "1", ">", "<", "h", "2", ">">>
  \o DayAndDate(dateString) \o <<
    "<", "/", "h", "2", ">", "<", "h", "3", ">", "M", "o", "r", "n", "i",
    "n", "g", "<", "/", "h", "3", ">", "<", "u", "l", ">", "<", "l", "i",
    ">", "<", "p", ">", "<", "/", "p", ">", "<", "/", "l", "i", ">", "<",
    "/", "u", "l", ">", "<", "h", "3", ">", "T", "a", "s", "k", "s", "<",
    "/", "h", "3", ">", "<", "u", "l", " ", "d", "a", "t", "a", "-", "t",
    "y", "p", "e", "=", "\"", "t", "a", "s", "k", "L", "i", "s", "t", "\"",
    ">", "<", "l", "i", " ", "d", "a", "t", "a", "-", "t", "y", "p", "e",
    "=", "\"", "t", "a", "s", "k", "I", "t", "e", "m", "\"", " ", "d", "a",
    "t", "a", "-", "c", "h", "e", "c", "k", "e", "d", "=", "\"", "f", "a",
    "l", "s", "e", "\"", ">", "<", "l", "a", "b", "e", "l", ">", "<", "i",
    "n", "p", "u", "t", " ", "t", "y", "p", "e", "=", "\"", "c", "h", "e",
    "c", "k", "b", "o", "x", "\"", ">", "<", "s", "p", "a", "n", ">", "<",
    "/", "s", "p", "a", "n", ">", "<", "/", "l", "a", "b", "e", "l", ">",
    "<", "d", "i", "v", ">", "<", "p", ">", "<", "/", "p", ">", "<", "/",
    "d", "i", "v", ">", "<", "/", "l", "i", ">", "<", "/", "u", "l", ">",
    "<", "h", "3", ">", "N", "o", "t", "e", "s", "<", "/", "h", "3", ">",
    "<", "p", ">", "<", "/", "p", ">", "<", "h", "3", ">", "E", "v", "e",
    "n", "i", "n", "g", " ", "R", "e", "f", "l", "e", "c", "t", "i", "o",
    "n", "<", "/", "h", "3", ">", "<", "p", ">", "<", "/", "p", ">" >>

CreateDailyNote(dateString) ==
  /\ nextNodeId <= MaxNodes
  /\ nodes' = DbInsert(nodes, nextNodeId,
                NodeDoc("note", DailyNoteContent(dateString), GridX,
                        Some("manual"), NoVoice, None))
  /\ nextNodeId' = nextNodeId + 1
  /\ lastOp' = Call("createDailyNote", dateString, TRUE, Some(nextNodeId))
  /\ UNCHANGED <<editor, now, edges, nextEdgeId, voiceNotes, runs, adds,
                 nextRunId, nextAddId>>

\* findDailyNote: the first note whose extractNoteTitle is the date string
\* itself, or null
FindDailyNote(dateString) ==
  LET found == {n \in Notes : ExtractNoteTitle(nodes[n].content) = dateString}
  IN  IF found = {} THEN None ELSE Some(Min(found))

FindDailyNoteCall(dateString) ==
  /\ lastOp' = Call("findDailyNote", dateString, TRUE, FindDailyNote(dateString))
  /\ UNCHANGED <<editor, now, nodes, edges, nextNodeId, nextEdgeId, voiceNotes,
                 runs, adds, nextRunId, nextAddId>>

\* (a filter that trusts the stored outgoingLinks alone)
IsWikiLinkBacklinkLinksOnly(n, targetTitle) ==
  /\ nodes[n].outgoingLinks # None
  /\ \E i \in DOMAIN nodes[n].outgoingLinks[1] :
       ToLowerCase(nodes[n].outgoingLinks[1][i]) = targetTitle

\* getWikiLinkBacklinks: the filter (lines 304-315)
IsWikiLinkBacklink(n, targetTitle) ==
  \/ /\ nodes[n].outgoingLinks # None
     /\ \E i \in DOMAIN nodes[n].outgoingLinks[1] :
          ToLowerCase(nodes[n].outgoingLinks[1][i]) = targetTitle
  \/ Includes(ExtractWikiLinksFromContent(nodes[n].content), targetTitle)

\* getWikiLinkBacklinks (lines 294-323): the notes that pass the filter, each
\* with its title
GetWikiLinkBacklinks(noteTitle) ==
  IF noteTitle = <<>> THEN <<>>
  ELSE LET backlinks == InOrder({n \in Notes :
                                   IsWikiLinkBacklink(n, ToLowerCase(noteTitle))})
       IN  [i \in DOMAIN backlinks |->
              [_id |-> backlinks[i],
               title |-> ExtractNoteTitle(nodes[backlinks[i]].content)]]

\* (a getBacklinks that keeps one entry per source node)
GetBacklinksOnePerSource(nodeId) ==
  LET sources == InOrder({edges[e].source : e \in TargetEdges(nodeId)}
                           \cap DOMAIN nodes)
  IN  [i \in DOMAIN sources |->
         [_id |-> sources[i],
          edgeLabel |-> edges[Min({e \in TargetEdges(nodeId) :
                                     edges[e].source = sources[i]})].label]]

\* getBacklinks (lines 159-178): per incoming edge the source node with the
\* edge's label, or null; the nulls are filtered out
GetBacklinks(nodeId) ==
  LET incomingEdges == InOrder(TargetEdges(nodeId))
      live == SelectSeq(incomingEdges, LAMBDA e : edges[e].source \in DOMAIN nodes)
  IN  [i \in DOMAIN live |->
         [_id |-> edges[live[i]].source, edgeLabel |-> edges[live[i]].label]]

\* ------------------------------- components/notes/NoteEditor.tsx
\* the content of the note created for a link that resolves to no note
\* (line 77)
HeadingStub(title) == <<"#", " ">> \o title \o <<"\n", "\n">>

\* handleUpdate (lines 96-103): the editor saves content with the links it
\* extracted itself
HandleUpdate(noteId, content) ==
  UpdateNode(noteId, UpdateArgs(Some(content), None,
                                Some(ExtractWikiLinks(content))))

\* --------------------------- NoteEditor.tsx and hooks/useNoteEditor.ts
\* The component stays mounted while the note shown changes (the note-switch
\* effect and its prevNoteIdRef exist for that); the editor is created once
\* (useEditor with no dependencies).
Paragraph(c) == <<"<", "p", ">", c, "<", "/", "p", ">">>

\* the parent passes another noteId (onNavigate ends here too): the
\* getNodeById query of the new id has not answered yet, and an answer for
\* the id shown before is no longer listened to
OpenNote(ed, id) ==
  IF id = ed.noteId THEN ed
  ELSE [ed EXCEPT !.noteId = id, !.loaded = FALSE, !.noteAnswer = None]

SelectNote(id) ==
  /\ id \in DOMAIN nodes /\ id # editor.noteId
  /\ editor' = OpenNote(editor, id)
  /\ lastOp' = NoOp
  /\ UNCHANGED <<now, nodes, edges, nextNodeId, nextEdgeId, voiceNotes, runs,
                 adds, nextRunId, nextAddId>>

\* the server evaluates getNodeById (canvas.ts 11-16) for the noteId shown;
\* the answer, with the content the note has now, is on its way to the
\* component (a null answer, of a note that is gone, leaves the component
\* at "Loading...")
GetNodeByIdAnswers ==
  /\ editor.noteId \in DOMAIN nodes
  /\ ~editor.loaded /\ editor.noteAnswer = None
  /\ editor' = [editor EXCEPT !.noteAnswer = Some(nodes[editor.noteId].content)]
  /\ lastOp' = NoOp
  /\ UNCHANGED <<now, nodes, edges, nextNodeId, nextEdgeId, voiceNotes, runs,
                 adds, nextRunId, nextAddId>>

\* the answer of getNodeById reaches the component; the note-switch effect
\* (NoteEditor.tsx 115-121) then calls setContent with the content the
\* answer carries, if the note is another one than the last it loaded.
\* setContent may or may not emit an update, which restarts the save
\* timeout.
NoteArrives ==
  /\ editor.noteAnswer # None /\ ~editor.loaded
  /\ \/ /\ editor.noteId # editor.prevNoteId
        /\ \E timer \in {editor.timer, TRUE} :
             editor' = [editor EXCEPT !.loaded = TRUE,
                                      !.noteAnswer = None,
                                      !.prevNoteId = editor.noteId,
                                      !.text = SetContentHtml(editor.noteAnswer[1]),
                                      !.owner = editor.noteId,
                                      !.timer = timer]
     \/ /\ editor.noteId = editor.prevNoteId
        /\ editor' = [editor EXCEPT !.loaded = TRUE, !.noteAnswer = None]
  /\ lastOp' = NoOp
  /\ UNCHANGED <<now, nodes, edges, nextNodeId, nextEdgeId, voiceNotes, runs,
                 adds, nextRunId, nextAddId>>

\* the user edits the text: onUpdate (useNoteEditor.ts 64-71) clears the
\* timeout and sets it again
Type(text) ==
  /\ editor.loaded /\ text # editor.text
  /\ editor' = [editor EXCEPT !.text = text, !.timer = TRUE]
  /\ lastOp' = NoOp
  /\ UNCHANGED <<now, nodes, edges, nextNodeId, nextEdgeId, voiceNotes, runs,
                 adds, nextRunId, nextAddId>>

\* the timeout fires: onUpdateRef.current, the handleUpdate of the noteId
\* shown now, is called with editor.getHTML() as it is now and sends
\* updateNode without awaiting it (NoteEditor.tsx 97-103)
SaveTimeout ==
  /\ editor.timer
  /\ Len(editor.saves) < MaxSaves
  /\ LET call == [id |-> editor.noteId,
                  args |-> UpdateArgs(Some(editor.text), None,
                                      Some(ExtractWikiLinks(editor.text)))]
     IN  editor' = [editor EXCEPT !.timer = FALSE, !.saves = Append(@, call)]
  /\ lastOp' = NoOp
  /\ UNCHANGED <<now, nodes, edges, nextNodeId, nextEdgeId, voiceNotes, runs,
                 adds, nextRunId, nextAddId>>

\* the updateNode mutation of the oldest save sent commits (canvas.ts 78-99)
UpdateNodeRuns ==
  /\ editor.saves # <<>>
  /\ editor' = [editor EXCEPT !.saves = Tail(@)]
  /\ LET call == Head(editor.saves)
     IN IF call.id \notin DOMAIN nodes
          THEN UNCHANGED nodes
          ELSE nodes' = [nodes EXCEPT ![call.id] = UpdateNodePatch(@, call.args)]
  /\ lastOp' = NoOp
  /\ UNCHANGED <<now, edges, nextNodeId, nextEdgeId, voiceNotes, runs, adds,
                 nextRunId, nextAddId>>

\* handleLinkClick (NoteEditor.tsx 92-94): setPendingLinkTitle(title). The
\* state is unchanged when the title is the pending one; with another
\* title the findNoteByTitle query is asked anew and is undefined until it
\* answers.
HandleLinkClick(title) ==
  /\ editor.loaded
  /\ editor' = IF editor.pendingLinkTitle = Some(title) THEN editor
               ELSE [editor EXCEPT !.pendingLinkTitle = Some(title),
                                   !.linkedLoaded = FALSE, !.linkedNote = None,
                                   !.linkedAnswer = None, !.issued = 0]
  /\ lastOp' = NoOp
  /\ UNCHANGED <<now, nodes, edges, nextNodeId, nextEdgeId, voiceNotes, runs,
                 adds, nextRunId, nextAddId>>

\* the effect would call createNode (NoteEditor.tsx 75-81)
CallsCreateNode(ed) ==
  ed.pendingLinkTitle # None /\ ed.linkedLoaded /\ ed.linkedNote = None

\* the body of the pendingLinkTitle effect (NoteEditor.tsx 64-89) up to its
\* await: nothing while the query is undefined; navigate and clear the
\* title when it found a note; otherwise call createNode, the title staying
\* set until that call resolves
NavigationEffect(ed) ==
  IF ed.pendingLinkTitle = None \/ ~ed.linkedLoaded THEN ed
  ELSE IF ed.linkedNote # None
    THEN [OpenNote(ed, ed.linkedNote[1]) EXCEPT !.pendingLinkTitle = None,
                                               !.linkedLoaded = FALSE,
                                               !.linkedNote = None,
                                               !.linkedAnswer = None]
  ELSE [ed EXCEPT !.calls = Append(@, [title |-> ed.pendingLinkTitle[1],
                                       id |-> NoNode]),
                  !.issued = @ + 1]

\* the server evaluates findNoteByTitle (canvas.ts 203-220) for the pending
\* title, at first or anew after a write changed its result; the answer is
\* on its way to the component
FindNoteByTitleAnswers ==
  /\ editor.pendingLinkTitle # None /\ editor.linkedAnswer = None
  /\ LET found == FindNoteByTitle(editor.pendingLinkTitle[1])
     IN  /\ ~editor.linkedLoaded \/ editor.linkedNote # found
         /\ editor' = [editor EXCEPT !.linkedAnswer = Some(found)]
  /\ lastOp' = NoOp
  /\ UNCHANGED <<now, nodes, edges, nextNodeId, nextEdgeId, voiceNotes, runs,
                 adds, nextRunId, nextAddId>>

\* the answer reaches the component; the effect runs because linkedNote
\* changed
LinkedNoteArrives ==
  /\ editor.linkedAnswer # None
  /\ LET ed == [editor EXCEPT !.linkedLoaded = TRUE,
                              !.linkedNote = editor.linkedAnswer[1],
                              !.linkedAnswer = None]
     IN  /\ CallsCreateNode(ed) => Len(ed.calls) < MaxCalls
         /\ editor' = NavigationEffect(ed)
         /\ lastOp' = IF ed.pendingLinkTitle # None /\ ed.linkedNote # None
                         THEN Call("handleNavigation", ed.pendingLinkTitle[1], TRUE,
                                   [id |-> ed.linkedNote[1], created |-> FALSE])
                         ELSE NoOp
  /\ UNCHANGED <<now, nodes, edges, nextNodeId, nextEdgeId, voiceNotes, runs,
                 adds, nextRunId, nextAddId>>

\* the parent renders again and passes a new onNavigate function; the
\* effect runs because a dependency changed
Rerender ==
  /\ CallsCreateNode(editor) => Len(editor.calls) < MaxCalls
  /\ editor' = NavigationEffect(editor)
  /\ lastOp' = NoOp
  /\ UNCHANGED <<now, nodes, edges, nextNodeId, nextEdgeId, voiceNotes, runs,
                 adds, nextRunId, nextAddId>>

\* the createNode mutation of the oldest call not yet run commits
CreateNodeRuns ==
  /\ nextNodeId <= MaxNotes
  /\ \E i \in DOMAIN editor.calls :
       /\ editor.calls[i].id = NoNode
       /\ \A k \in 1..(i - 1) : editor.calls[k].id # NoNode
       /\ nodes' = DbInsert(nodes, nextNodeId,
                     NodeDoc("note", HeadingStub(editor.calls[i].title), GridX,
                             Some("manual"), NoVoice, None))
       /\ editor' = [editor EXCEPT !.calls[i].id = nextNodeId]
  /\ nextNodeId' = nextNodeId + 1
  /\ lastOp' = NoOp
  /\ UNCHANGED <<now, edges, nextEdgeId, voiceNotes, runs, adds, nextRunId,
                 nextAddId>>

\* the await of the oldest call returns: onNavigate(newId), then
\* setPendingLinkTitle(null)
CreateNodeResolves ==
  /\ editor.calls # <<>> /\ editor.calls[1].id # NoNode
  /\ editor' = [OpenNote(editor, editor.calls[1].id) EXCEPT
                  !.calls = Tail(@), !.pendingLinkTitle = None,
                  !.linkedLoaded = FALSE, !.linkedNote = None,
                  !.linkedAnswer = None]
  /\ lastOp' = Call("handleNavigation", editor.calls[1].title, TRUE,
                    [id |-> editor.calls[1].id, created |-> TRUE])
  /\ UNCHANGED <<now, nodes, edges, nextNodeId, nextEdgeId, voiceNotes, runs,
                 adds, nextRunId, nextAddId>>

\* ============================ convex/schema.ts, voice-notes functions
Transcripts   == {"memo one", "memo two"}
ErrorTexts    == {""}

\* the concepts the extraction collaborator can return
ConceptPool ==
  { [title |-> "Alpha", content |-> "a", suggestedLinks |-> <<>>],
    [title |-> "Beta",  content |-> "b", suggestedLinks |-> <<"Alpha">>] }

\* an Error as thrown and caught: error instanceof Error, error.message
Err(message) == [isError |-> TRUE, message |-> message]

NextVoiceId == Cardinality(DOMAIN voiceNotes) + 1

\* create handler
Create(user) ==
  /\ NextVoiceId <= MaxVoiceNotes
  /\ voiceNotes' = DbInsert(voiceNotes, NextVoiceId,
                     [userId |-> user, status |-> "uploaded",
                      transcription |-> None, errorMessage |-> None,
                      updatedAt |-> now])
  /\ lastOp' = NoOp
  /\ UNCHANGED <<editor, now, nodes, edges, nextNodeId, nextEdgeId, runs, adds, nextRunId, nextAddId>>

\* get handler: the document, or null (None) for a missing or foreign one
Get(caller, id) ==
  IF id \in DOMAIN voiceNotes /\ voiceNotes[id].userId = caller
    THEN Some(voiceNotes[id]) ELSE None

\* (an updateStatus that tests only that the voice note exists)
UpdateStatusThrowsMissingOnly(caller, id) == id \notin DOMAIN voiceNotes

\* updateStatus handler: the ownership check
UpdateStatusThrows(caller, id) ==
  \/ id \notin DOMAIN voiceNotes
  \/ voiceNotes[id].userId # caller

\* (a patch that never stores errorMessage)
UpdateStatusPatchDropsMessage(doc, status, transcription, errorMessage) ==
  [doc EXCEPT !.status        = status,
              !.updatedAt     = now,
              !.transcription = IF transcription # None THEN transcription ELSE @]

\* (a patch that writes the optional fields even when they are undefined)
UpdateStatusPatchOverwrites(doc, status, transcription, errorMessage) ==
  [doc EXCEPT !.status        = status,
              !.updatedAt     = now,
              !.transcription = transcription,
              !.errorMessage  = errorMessage]

\* updateStatus handler: the patch (status and updatedAt always, the two
\* optional fields only when given)
UpdateStatusPatch(doc, status, transcription, errorMessage) ==
  [doc EXCEPT !.status        = status,
              !.updatedAt     = now,
              !.transcription = IF transcription # None THEN transcription ELSE @,
              !.errorMessage  = IF errorMessage # None THEN errorMessage ELSE @]

\* (an updateStatus that patches every voice note of the table)
UpdateStatusDbEvery(id, status, transcription, errorMessage) ==
  [v \in DOMAIN voiceNotes |->
     UpdateStatusPatch(voiceNotes[v], status, transcription, errorMessage)]

\* the table after updateStatus returned
UpdateStatusDb(id, status, transcription, errorMessage) ==
  [voiceNotes EXCEPT ![id] = UpdateStatusPatch(@, status, transcription, errorMessage)]

ClientTranscriptions == {None}
ClientErrorMessages  == {None}

\* updateStatus called directly (it is a public mutation)
UpdateStatus(caller, id, status, transcription, errorMessage) ==
  /\ IF UpdateStatusThrows(caller, id)
       THEN /\ lastOp' = Op("updateStatus", id, FALSE, 0, 0)
            /\ UNCHANGED voiceNotes
       ELSE /\ voiceNotes' = UpdateStatusDb(id, status, transcription, errorMessage)
            /\ lastOp' = Op("updateStatus", id, TRUE, 0, 0)
  /\ UNCHANGED <<editor, now, nodes, edges, nextNodeId, nextEdgeId, runs, adds, nextRunId, nextAddId>>

\* ------------------------------------------------------ process (action)
\* locals of one invocation. created is createdNodeIds. For the record:
\* before (the nodes that carried this voice note as sourceId when the
\* invocation started), writes (the statuses it wrote, in order), newEdges
\* (the edges it created), nTranscribe / nExtract (its calls to the Whisper
\* and extract-concepts endpoints), failedAt (the step that threw),
\* intraBatch (the pairs <<nodeId, neighbour>> where findRelated returned a
\* node this invocation had created for an earlier concept)
\* (an invocation that resumes after the transcript it finds stored)
NewRunResuming(voiceNoteId, caller) ==
  LET kept == IF voiceNoteId \in DOMAIN voiceNotes
                THEN voiceNotes[voiceNoteId].transcription ELSE None
  IN
  [voiceNoteId |-> voiceNoteId, caller |-> caller,
   pc |-> IF kept = None THEN "setTranscribing" ELSE "setProcessing",
   transcription |-> kept, concepts |-> <<>>, idx |-> 1, nodeId |-> NoNode,
   related |-> <<>>, j |-> 1, created |-> <<>>, newEdges |-> <<>>,
   before |-> {n \in DOMAIN nodes : nodes[n].sourceId = voiceNoteId},
   writes |-> <<>>, nTranscribe |-> 0, nExtract |-> 0,
   error |-> None, failedAt |-> "", thrown |-> None, intraBatch |-> {}]

NewRun(voiceNoteId, caller) ==
  [voiceNoteId |-> voiceNoteId, caller |-> caller, pc |-> "setTranscribing",
   transcription |-> None, concepts |-> <<>>, idx |-> 1, nodeId |-> NoNode,
   related |-> <<>>, j |-> 1, created |-> <<>>, newEdges |-> <<>>,
   before |-> {n \in DOMAIN nodes : nodes[n].sourceId = voiceNoteId},
   writes |-> <<>>, nTranscribe |-> 0, nExtract |-> 0,
   error |-> None, failedAt |-> "", thrown |-> None, intraBatch |-> {}]

\* the invocation returned ("done") or threw ("failed" after the catch
\* clause, "rejected" before the try block)
Ended(run) == run.pc \in {"done", "failed", "rejected"}

\* store the locals of invocation r after a step; an invocation that ended
\* leaves runs, and lastOp shows how it ended
Settle(r, run) ==
  IF Ended(run)
    THEN /\ runs' = DbRemove(runs, {r})
         /\ lastOp' = [Op("process", run.voiceNoteId, run.pc = "done", 0, 0)
                         EXCEPT !.run = Some(run)]
    ELSE /\ runs' = (r :> run) @@ runs
         /\ lastOp' = NoOp

\* (a failure that is swallowed: control goes on to the final status write)
ThrowSwallowed(run, error) ==
  [run EXCEPT !.pc = "setCompleted", !.error = Some(error), !.failedAt = run.pc,
              !.j = 1, !.nodeId = NoNode, !.related = <<>>]

\* throw inside the try block: control moves to the catch clause
\* (nodeId and related, declared inside the loop body, go out of scope)
Throw(run, error) ==
  [run EXCEPT !.pc = "catch", !.error = Some(error), !.failedAt = run.pc,
              !.j = 1, !.nodeId = NoNode, !.related = <<>>]

\* (a catch clause that stores the same message for every failure)
CatchMessageGeneric(error) == "Unknown error"

\* catch clause: the errorMessage handed to updateStatus
CatchMessage(error) == IF error.isError THEN error.message ELSE "Unknown error"

\* ---------------------------------------------- embeddings collaborators
\* a similarity score in thousandths (874 is 0.874)
Scores == {874}

\* entry of related.nodes: a node with its score, or null
Related(id, score) == [_id |-> id, score |-> score]
NullRelated        == Related(NoNode, 0)

\* nodes the vector index can return: those that carry an embedding
Embedded == {n \in DOMAIN nodes : nodes[n].embedding # None}

\* findRelated({query, limit}): every ranked list of at most limit entries,
\* no node twice; an entry is null when its document no longer resolves
FindRelatedResults(limit) ==
  LET pool == {Related(n, sc) : n \in Embedded, sc \in Scores} \cup {NullRelated}
      lists == UNION {[1..k -> pool] : k \in 0..limit}
  IN  {l \in lists : \A a, b \in DOMAIN l : a # b => l[a] # l[b]}

\* Math.round(score * 100)
RoundPercent(score) == (score + 5) \div 10

\* ---------------------------------------------------- process, continued
\* content of the note created for a concept (lines 332-335 of schema.ts;
\* the line numbers below are lines of that file)
RECURSIVE JoinWikiLinks(_)
JoinWikiLinks(links) ==
  IF links = <<>> THEN ""
  ELSE "[[" \o Head(links) \o "]]" \o
       (IF Tail(links) = <<>> THEN "" ELSE " " \o JoinWikiLinks(Tail(links)))

ComposeContent(concept) ==
  LET wikiLinks == JoinWikiLinks(concept.suggestedLinks)
  IN  "# " \o concept.title \o "\n\n" \o concept.content \o
      (IF wikiLinks # "" THEN "\n\n" \o wikiLinks ELSE "")

\* label of a similarity edge (line 369)
PipelineLabel(score) == Some(ToString(RoundPercent(score)) \o "%")

\* the test guarding createEdge in the loop over related.nodes (lines 361-365)
LinkFilter(relatedNode, nodeId, createdNodeIds) ==
  /\ relatedNode._id # NoNode
  /\ relatedNode._id # nodeId
  /\ relatedNode._id \notin Range(createdNodeIds)

\* (a loop that goes back to the entry it has just linked)
NextLinkRepeats(run, from) ==
  LET back == IF from > 1 THEN from - 1 ELSE from
      ok == {k \in back..Len(run.related) :
               LinkFilter(run.related[k], run.nodeId, run.created)}
  IN  IF ok = {} THEN Len(run.related) + 1
      ELSE CHOOSE k \in ok : \A m \in ok : k <= m

\* first index >= from of related.nodes that passes the test, or Len + 1
NextLink(run, from) ==
  LET ok == {k \in from..Len(run.related) :
               LinkFilter(run.related[k], run.nodeId, run.created)}
  IN  IF ok = {} THEN Len(run.related) + 1
      ELSE CHOOSE k \in ok : \A m \in ok : k <= m

\* position the run at related.nodes[j]; past its end the iteration's
\* nodeId and related go out of scope and the run goes on to the next
\* concept, or past the last concept to the final status write
Advance(run, j) ==
  IF j <= Len(run.related)
    THEN [run EXCEPT !.pc = "link", !.j = j]
  ELSE IF run.idx < Len(run.concepts)
    THEN [run EXCEPT !.pc = "createNode", !.idx = @ + 1, !.j = 1,
                     !.nodeId = NoNode, !.related = <<>>]
  ELSE [run EXCEPT !.pc = "setCompleted", !.j = 1,
                   !.nodeId = NoNode, !.related = <<>>]

\* (a catch clause that starts over instead of throwing)
RetryInsteadOfRethrow(run) == [run EXCEPT !.pc = "transcribe"]

\* catch clause, after updateStatus returned: throw error
Rethrow(run) == [run EXCEPT !.pc = "failed", !.thrown = run.error]

\* lines 246-249: read the voice note through get
ProcessStart(caller, voiceNoteId) ==
  /\ nextRunId <= MaxRuns
  /\ nextRunId' = nextRunId + 1
  /\ LET run == NewRun(voiceNoteId, caller)
     IN IF Get(caller, voiceNoteId) = None
          THEN Settle(nextRunId,
                 [run EXCEPT !.pc = "rejected",
                             !.thrown = Some(Err("Voice note not found"))])
          ELSE Settle(nextRunId, run)
  /\ UNCHANGED <<editor, now, nodes, edges, nextNodeId, nextEdgeId, voiceNotes, adds, nextAddId>>

\* lines 252-255, before the try block
SetTranscribing(r) ==
  /\ runs[r].pc = "setTranscribing"
  /\ LET run == runs[r] IN
     IF UpdateStatusThrows(run.caller, run.voiceNoteId)
       THEN /\ Settle(r, [run EXCEPT !.pc = "rejected",
                                     !.thrown = Some(Err("Not found"))])
            /\ UNCHANGED voiceNotes
       ELSE /\ voiceNotes' = UpdateStatusDb(run.voiceNoteId, "transcribing", None, None)
            /\ Settle(r, [run EXCEPT !.pc = "transcribe",
                                     !.writes = Append(@, "transcribing")])
  /\ UNCHANGED <<editor, now, nodes, edges, nextNodeId, nextEdgeId, adds, nextRunId, nextAddId>>

\* lines 258-292: audio url, audio fetch, Whisper call
Transcribe(r) ==
  /\ runs[r].pc = "transcribe"
  /\ LET run == runs[r]
         called == [run EXCEPT !.nTranscribe = @ + 1]
     IN \/ Settle(r, Throw(run, Err("Audio file not found")))
        \/ Settle(r, Throw(run, Err("fetch failed")))
        \/ Settle(r, Throw(called, Err("fetch failed")))
        \/ \E text \in ErrorTexts :
             Settle(r, Throw(called, Err("Transcription failed: " \o text)))
        \/ \E t \in Transcripts :
             Settle(r, [called EXCEPT !.pc = "setProcessing",
                                      !.transcription = Some(t)])
  /\ UNCHANGED <<editor, now, nodes, edges, nextNodeId, nextEdgeId, voiceNotes, adds,
                 nextRunId, nextAddId>>

\* lines 295-299
SetProcessing(r) ==
  /\ runs[r].pc = "setProcessing"
  /\ LET run == runs[r] IN
     IF UpdateStatusThrows(run.caller, run.voiceNoteId)
       THEN /\ Settle(r, Throw(run, Err("Not found")))
            /\ UNCHANGED voiceNotes
       ELSE /\ voiceNotes' = UpdateStatusDb(run.voiceNoteId, "processing",
                                            run.transcription, None)
            /\ Settle(r, [run EXCEPT !.pc = "extract",
                                     !.writes = Append(@, "processing")])
  /\ UNCHANGED <<editor, now, nodes, edges, nextNodeId, nextEdgeId, adds, nextRunId, nextAddId>>

ConceptLists == UNION {[1..k -> ConceptPool] : k \in 0..MaxConcepts}

\* lines 302-322: listNodes, the extract-concepts call
Extract(r) ==
  /\ runs[r].pc = "extract"
  /\ LET run == runs[r]
         called == [run EXCEPT !.nExtract = @ + 1]
     IN \/ Settle(r, Throw(called, Err("fetch failed")))
        \/ \E text \in ErrorTexts :
             Settle(r, Throw(called, Err("Concept extraction failed: " \o text)))
        \/ \E cs \in ConceptLists :
             Settle(r, [called EXCEPT
                          !.concepts = cs,
                          !.pc = IF cs = <<>> THEN "setCompleted" ELSE "createNode"])
  /\ UNCHANGED <<editor, now, nodes, edges, nextNodeId, nextEdgeId, voiceNotes, adds,
                 nextRunId, nextAddId>>

\* lines 330-346: createNode for concepts[idx], push onto createdNodeIds
CreateConceptNode(r) ==
  /\ runs[r].pc = "createNode"
  /\ LET run == runs[r]
         concept == run.concepts[run.idx]
     IN \/ /\ Settle(r, Throw(run, Err("createNode failed")))
           /\ UNCHANGED <<nodes, nextNodeId>>
        \/ /\ nextNodeId <= MaxLinkNodes
           /\ nodes' = DbInsert(nodes, nextNodeId,
                         NodeDoc("note", ComposeContent(concept), GridX,
                                 Some("voice"), run.voiceNoteId, None))
           /\ nextNodeId' = nextNodeId + 1
           /\ Settle(r, [run EXCEPT !.pc = "embed",
                                    !.nodeId = nextNodeId,
                                    !.created = Append(@, nextNodeId)])
  /\ UNCHANGED <<editor, now, edges, nextEdgeId, voiceNotes, adds, nextRunId, nextAddId>>

\* embedCanvasNode: obtain the vector, patch it onto the node; fails when the
\* embedding call fails or the node is gone
EmbedCanvasNode(nodeId) ==
  /\ nodeId \in DOMAIN nodes
  /\ nodes' = [nodes EXCEPT ![nodeId].embedding = Some("vec")]

\* lines 349-352
Embed(r) ==
  /\ runs[r].pc = "embed"
  /\ LET run == runs[r]
     IN \/ /\ Settle(r, Throw(run, Err("embed failed")))
           /\ UNCHANGED nodes
        \/ /\ EmbedCanvasNode(run.nodeId)
           /\ Settle(r, [run EXCEPT !.pc = "findRelated"])
  /\ UNCHANGED <<editor, now, edges, nextNodeId, nextEdgeId, voiceNotes, adds, nextRunId, nextAddId>>

\* the neighbours in related.nodes that this invocation created for an
\* earlier concept, each paired with the node being linked
EarlierOfBatch(run, related) ==
  {<<run.nodeId, related[k]._id>> :
     k \in {i \in DOMAIN related :
              /\ related[i]._id \in Range(run.created)
              /\ related[i]._id # run.nodeId}}

\* lines 355-358, and the entry into the loop over related.nodes
FindRelated(r) ==
  /\ runs[r].pc = "findRelated"
  /\ LET run == runs[r]
     IN \/ Settle(r, Throw(run, Err("findRelated failed")))
        \/ \E related \in FindRelatedResults(RelatedLimit) :
             LET got == [run EXCEPT
                           !.related = related,
                           !.intraBatch = @ \cup EarlierOfBatch(run, related)]
             IN  Settle(r, Advance(got, NextLink(got, 1)))
  /\ UNCHANGED <<editor, now, nodes, edges, nextNodeId, nextEdgeId, voiceNotes, adds,
                 nextRunId, nextAddId>>

\* lines 366-370: one createEdge call of the loop, then on to the next entry
\* that passes the test
Link(r) ==
  /\ runs[r].pc = "link"
  /\ LET run == runs[r]
         relatedNode == run.related[run.j]
     IN \/ /\ Settle(r, Throw(run, Err("createEdge failed")))
           /\ UNCHANGED <<edges, nextEdgeId>>
        \/ /\ nextEdgeId <= MaxLinkEdges
           /\ edges' = DbInsert(edges, nextEdgeId,
                         EdgeDoc(run.nodeId, relatedNode._id,
                                 PipelineLabel(relatedNode.score)))
           /\ nextEdgeId' = nextEdgeId + 1
           /\ Settle(r, Advance([run EXCEPT !.newEdges = Append(@, nextEdgeId)],
                                NextLink(run, run.j + 1)))
  /\ UNCHANGED <<editor, now, nodes, nextNodeId, voiceNotes, adds, nextRunId, nextAddId>>

\* lines 378-383
SetCompleted(r) ==
  /\ runs[r].pc = "setCompleted"
  /\ LET run == runs[r] IN
     IF UpdateStatusThrows(run.caller, run.voiceNoteId)
       THEN /\ Settle(r, Throw(run, Err("Not found")))
            /\ UNCHANGED voiceNotes
       ELSE /\ voiceNotes' = UpdateStatusDb(run.voiceNoteId, "completed", None, None)
            /\ Settle(r, [run EXCEPT !.pc = "done",
                                     !.writes = Append(@, "completed")])
  /\ UNCHANGED <<editor, now, nodes, edges, nextNodeId, nextEdgeId, adds, nextRunId, nextAddId>>

\* (a catch clause that undoes the graph writes of the try block)
CatchRollsBack(run) ==
  /\ nodes' = DbRemove(nodes, Range(run.created))
  /\ edges' = DbRemove(edges, Range(run.newEdges))

\* catch clause: it holds no call that deletes a node or an edge, so what the
\* try block wrote to the graph stays
CatchGraph(run) == UNCHANGED <<nodes, edges>>

\* lines 384-392
Catch(r) ==
  /\ runs[r].pc = "catch"
  /\ CatchGraph(runs[r])
  /\ LET run == runs[r] IN
     IF UpdateStatusThrows(run.caller, run.voiceNoteId)
       THEN /\ Settle(r, [run EXCEPT !.pc = "failed",
                                     !.thrown = Some(Err("Not found"))])
            /\ UNCHANGED voiceNotes
       ELSE /\ voiceNotes' = UpdateStatusDb(run.voiceNoteId, "error", None,
                                            Some(CatchMessage(run.error[1])))
            /\ Settle(r, Rethrow([run EXCEPT !.writes = Append(@, "error")]))
  /\ UNCHANGED <<editor, now, nextNodeId, nextEdgeId, adds, nextRunId, nextAddId>>

\* ==================================== src/app/page.tsx handleAddToCanvas
\* label of a similarity edge (line 126)
CanvasLabel(score) == Some(ToString(RoundPercent(score)) \o "% related")

\* (a test that only skips null entries)
CanvasLinkFilterNoSelfTest(node, nodeId) == node._id # NoNode

\* the test guarding createEdge (line 122)
CanvasLinkFilter(node, nodeId) == node._id # NoNode /\ node._id # nodeId

NextCanvasLink(add, from) ==
  LET ok == {k \in from..Len(add.related) :
               CanvasLinkFilter(add.related[k], add.nodeId)}
  IN  IF ok = {} THEN Len(add.related) + 1
      ELSE CHOOSE k \in ok : \A m \in ok : k <= m

AdvanceAdd(add, j) ==
  IF j <= Len(add.related) THEN [add EXCEPT !.pc = "link", !.j = j]
  ELSE [add EXCEPT !.pc = "done", !.j = 1, !.related = <<>>]

\* the handler returned and its embedCanvasNode promise settled
AddEnded(add) == add.pc = "done" /\ ~add.embedding

SettleAdd(a, add) ==
  /\ adds' = IF AddEnded(add) THEN DbRemove(adds, {a}) ELSE (a :> add) @@ adds
  /\ lastOp' = NoOp

\* lines 108-114: createNode of the chat reference; line 116 then starts
\* embedCanvasNode without awaiting it
AddToCanvasStart(content) ==
  /\ nextAddId <= MaxAdds
  /\ nextNodeId <= MaxLinkNodes
  /\ nodes' = DbInsert(nodes, nextNodeId,
                       NodeDoc("chat_reference", content, GridX, None, NoVoice,
                               None))
  /\ nextNodeId' = nextNodeId + 1
  /\ nextAddId' = nextAddId + 1
  /\ SettleAdd(nextAddId,
               [nodeId |-> nextNodeId, pc |-> "findRelated", embedding |-> TRUE,
                related |-> <<>>, j |-> 1, newEdges |-> <<>>])
  /\ UNCHANGED <<editor, now, edges, nextEdgeId, voiceNotes, runs, nextRunId>>

\* line 116: the un-awaited embedCanvasNode settles (its failure is logged)
AddToCanvasEmbed(a) ==
  /\ adds[a].embedding
  /\ \/ UNCHANGED nodes
     \/ EmbedCanvasNode(adds[a].nodeId)
  /\ SettleAdd(a, [adds[a] EXCEPT !.embedding = FALSE])
  /\ UNCHANGED <<editor, now, edges, nextNodeId, nextEdgeId, voiceNotes, runs, nextRunId, nextAddId>>

\* line 119; a failure is caught at line 130
AddToCanvasFindRelated(a) ==
  /\ adds[a].pc = "findRelated"
  /\ LET add == adds[a]
     IN \/ SettleAdd(a, [add EXCEPT !.pc = "done"])
        \/ \E related \in FindRelatedResults(RelatedLimit) :
             LET got == [add EXCEPT !.related = related]
             IN  SettleAdd(a, AdvanceAdd(got, NextCanvasLink(got, 1)))
  /\ UNCHANGED <<editor, now, nodes, edges, nextNodeId, nextEdgeId, voiceNotes, runs,
                 nextRunId, nextAddId>>

\* lines 123-127: one createEdge call of the loop; a failure is caught
AddToCanvasLink(a) ==
  /\ adds[a].pc = "link"
  /\ LET add == adds[a]
         node == add.related[add.j]
     IN \/ /\ SettleAdd(a, [add EXCEPT !.pc = "done", !.j = 1, !.related = <<>>])
           /\ UNCHANGED <<edges, nextEdgeId>>
        \/ /\ nextEdgeId <= MaxLinkEdges
           /\ edges' = DbInsert(edges, nextEdgeId,
                         EdgeDoc(add.nodeId, node._id, CanvasLabel(node.score)))
           /\ nextEdgeId' = nextEdgeId + 1
           /\ SettleAdd(a, AdvanceAdd([add EXCEPT !.newEdges = Append(@, nextEdgeId)],
                                      NextCanvasLink(add, add.j + 1)))
  /\ UNCHANGED <<editor, now, nodes, nextNodeId, voiceNotes, runs, nextRunId, nextAddId>>

\* ======================================================= specifications
Init ==
  /\ nodes = <<>>
  /\ edges = <<>>
  /\ nextNodeId = 1
  /\ nextEdgeId = 1
  /\ voiceNotes = <<>>
  /\ runs = <<>>
  /\ adds = <<>>
  /\ nextRunId = 1
  /\ nextAddId = 1
  /\ lastOp = NoOp
  /\ now = 0
  /\ editor = NoEditor

\* the node / edge repository under its direct callers
Next ==
  \/ \E type \in ClientNodeTypes, content \in ClientContents :
       CreateNode(type, content, GridX, None)
  \/ \E id \in IssuedNodeIds : UpdateNodeEmbedding(id, "vec")
  \/ \E id \in IssuedNodeIds : DeleteNode(id)
  \/ \E source, target \in IssuedNodeIds, label \in ClientLabels :
       CreateEdge(source, target, label)
  \/ \E id \in IssuedEdgeIds : DeleteEdge(id)

Spec == Init /\ [][Next]_vars

\* no invocation of process or handleAddToCanvas is under way
Idle == DOMAIN runs = {} /\ DOMAIN adds = {}

\* the pipeline and handleAddToCanvas, one invocation at a time, on the graph
\* and the voice notes that earlier invocations and direct updateStatus calls
\* have left; at most MaxNodes node ids and MaxEdges edge ids
NextSolo ==
  \/ Idle /\ \E user \in Users : Create(user)
  \/ Idle /\ \E caller \in Users, id \in VoiceIds, status \in Statuses,
                transcription \in ClientTranscriptions,
                errorMessage \in ClientErrorMessages :
               UpdateStatus(caller, id, status, transcription, errorMessage)
  \/ Idle /\ \E caller \in Users, id \in VoiceIds : ProcessStart(caller, id)
  \/ \E r \in DOMAIN runs :
       \/ SetTranscribing(r)
       \/ Transcribe(r)
       \/ SetProcessing(r)
       \/ Extract(r)
       \/ CreateConceptNode(r) /\ nextNodeId' <= MaxNodes + 1
       \/ Embed(r)
       \/ FindRelated(r)
       \/ Link(r) /\ nextEdgeId' <= MaxEdges + 1
       \/ SetCompleted(r)
       \/ Catch(r)
  \/ /\ Idle /\ nextNodeId <= MaxNodes
     /\ \E content \in ClientContents : AddToCanvasStart(content)
  \/ \E a \in DOMAIN adds :
       \/ AddToCanvasEmbed(a)
       \/ AddToCanvasFindRelated(a)
       \/ AddToCanvasLink(a) /\ nextEdgeId' <= MaxEdges + 1

SpecSolo == Init /\ [][NextSolo]_vars

\* --------------------------------------------- notes written and read
\* contents: "# A", "[[A]]", "", `<p data-title="A">`
TextHeadingA  == <<"#", " ", "A">>
TextLinkA     == <<"[", "[", "A", "]", "]">>
TextEmpty     == <<>>
TextAttrA     == <<"<", "p", " ">> \o DataTitleAttr \o <<"A", "\"", ">">>

NoteTexts == {TextHeadingA, TextLinkA, TextEmpty, TextAttrA}

NoteNodeTypes == {"note", "text"}

\* outgoingLinks as a client passes it: undefined, or ["A"]
ClientLinkLists == {None, Some(<< <<"A">> >>)}

\* titles of the links clicked: "a", " A" (the link [[ A]])
NavTitles == {<<"a">>, <<" ", "A">>}

\* titles asked for: "A", "a", " A", "Untitled", ""
QueryTitles == {<<"A">>, <<"a">>, <<" ", "A">>, Untitled, <<>>}

\* notes written by createNode, updateNode and the note editor, and read by
\* the title and backlink queries
NextNotes ==
  \/ /\ nextNodeId <= MaxNotes
     /\ \E type \in NoteNodeTypes, content \in NoteTexts,
           outgoingLinks \in ClientLinkLists :
          CreateNode(type, content, GridX, outgoingLinks)
  \/ \E id \in IssuedNodeIds, content \in {None} \cup {Some(t) : t \in NoteTexts},
        outgoingLinks \in ClientLinkLists :
       UpdateNode(id, UpdateArgs(content, None, outgoingLinks))
  \/ \E id \in IssuedNodeIds, content \in NoteTexts : HandleUpdate(id, content)

SpecNotes == Init /\ [][NextNotes]_vars

\* updateNode with every combination of given and undefined fields, on a
\* graph with other nodes and an edge, while time passes
UpdateTexts == {TextHeadingA, TextLinkA}
ClientXs    == {None, Some(1)}

NextUpdate ==
  \/ /\ nextNodeId <= MaxNotes
     /\ \E content \in UpdateTexts, outgoingLinks \in ClientLinkLists :
          CreateNode("note", content, GridX, outgoingLinks)
  \/ \E id \in IssuedNodeIds, content \in {None} \cup {Some(t) : t \in UpdateTexts},
        x \in ClientXs, outgoingLinks \in ClientLinkLists :
       UpdateNode(id, UpdateArgs(content, x, outgoingLinks))
  \/ /\ nextEdgeId <= MaxNoteEdges
     /\ \E source, target \in IssuedNodeIds, label \in ClientLabels :
          CreateEdge(source, target, label)
  \/ Tick

SpecUpdate == Init /\ [][NextUpdate]_vars

\* process on MaxConcurrent uploaded voice notes of one user at the same
\* time, one invocation per voice note, the steps of the invocations
\* interleaved in every order. The collaborators answer with one transcript
\* and at most one neighbour.
InitConcurrent ==
  /\ nodes = <<>>
  /\ edges = <<>>
  /\ nextNodeId = 1
  /\ nextEdgeId = 1
  /\ runs = <<>>
  /\ adds = <<>>
  /\ nextRunId = 1
  /\ nextAddId = 1
  /\ lastOp = NoOp
  /\ now = 0
  /\ editor = NoEditor
  /\ voiceNotes = [v \in 1..MaxConcurrent |->
                     [userId |-> "u1", status |-> "uploaded",
                      transcription |-> None, errorMessage |-> None,
                      updatedAt |-> 0]]

ShortAnswers(r) ==
  r \in DOMAIN runs' =>
    /\ runs'[r].transcription \in {None, Some("memo one")}
    /\ Len(runs'[r].related) <= 1

NextConcurrent ==
  \/ \E id \in DOMAIN voiceNotes :
       /\ voiceNotes[id].status = "uploaded"
       /\ \A r \in DOMAIN runs : runs[r].voiceNoteId # id
       /\ ProcessStart("u1", id)
  \/ \E r \in DOMAIN runs :
       \/ SetTranscribing(r)
       \/ Transcribe(r) /\ ShortAnswers(r)
       \/ SetProcessing(r)
       \/ Extract(r) /\ ShortAnswers(r)
       \/ CreateConceptNode(r) /\ nextNodeId' <= MaxNodes + 1
       \/ Embed(r)
       \/ FindRelated(r) /\ ShortAnswers(r)
       \/ Link(r) /\ nextEdgeId' <= MaxEdges + 1
       \/ SetCompleted(r)
       \/ Catch(r)

SpecConcurrent == InitConcurrent /\ [][NextConcurrent]_vars

\* similarity linking at its limit: a canvas that already holds MaxNeighbours
\* embedded notes and no edge, one uploaded voice note, and then one
\* invocation, of process or of handleAddToCanvas. findRelated has more
\* nodes to choose from than its limit, and MaxLinkEdges leaves room for one
\* edge more than the limit.
InitLinking ==
  /\ now = 0
  /\ nodes = [n \in 1..MaxNeighbours |->
               [NodeDoc("note", "x", GridX, None, NoVoice, None)
                  EXCEPT !.embedding = Some("vec")]]
  /\ edges = <<>>
  /\ nextNodeId = MaxNeighbours + 1
  /\ nextEdgeId = 1
  /\ voiceNotes = [v \in {1} |->
                     [userId |-> "u1", status |-> "uploaded",
                      transcription |-> None, errorMessage |-> None,
                      updatedAt |-> 0]]
  /\ runs = <<>>
  /\ adds = <<>>
  /\ nextRunId = 1
  /\ nextAddId = 1
  /\ lastOp = NoOp
  /\ editor = NoEditor

NextLinking ==
  \/ nextRunId = 1 /\ nextAddId = 1 /\ ProcessStart("u1", 1)
  \/ \E r \in DOMAIN runs :
       \/ SetTranscribing(r)
       \/ Transcribe(r)
       \/ SetProcessing(r)
       \/ Extract(r)
       \/ CreateConceptNode(r)
       \/ Embed(r)
       \/ FindRelated(r)
       \/ Link(r)
       \/ SetCompleted(r)
       \/ Catch(r)
  \/ /\ nextRunId = 1
     /\ \E content \in ClientContents : AddToCanvasStart(content)
  \/ \E a \in DOMAIN adds :
       \/ AddToCanvasEmbed(a)
       \/ AddToCanvasFindRelated(a)
       \/ AddToCanvasLink(a)

SpecLinking == InitLinking /\ [][NextLinking]_vars

\* daily notes made by createDailyNote and notes written by hand whose
\* heading is a date, looked up by findDailyNote
DailyDates == {Date30, Date31}

NextDaily ==
  \/ \E dateString \in DailyDates : CreateDailyNote(dateString)
  \/ \E dateString \in DailyDates :
       CreateNode("note", HeadingStub(dateString), GridX, None)
  \/ \E dateString \in DailyDates : FindDailyNoteCall(dateString)
  \/ \E id \in IssuedNodeIds : DeleteNode(id)

SpecDaily == Init /\ [][NextDaily]_vars

\* the note editor over notes that createNode made: notes are opened,
\* edited and saved after the timeout, links are clicked
EditorTexts == {Paragraph("b")}
TypedTexts  == {Paragraph("a")}

NextEditor ==
  \/ /\ nextNodeId <= MaxNotes
     /\ \E content \in EditorTexts : CreateNode("note", content, GridX, None)
  \/ \E id \in IssuedNodeIds : SelectNote(id)
  \/ GetNodeByIdAnswers
  \/ NoteArrives
  \/ \E text \in TypedTexts : Type(text)
  \/ SaveTimeout
  \/ UpdateNodeRuns
  \/ \E title \in NavTitles : HandleLinkClick(title)
  \/ FindNoteByTitleAnswers
  \/ LinkedNoteArrives
  \/ Rerender
  \/ CreateNodeRuns
  \/ CreateNodeResolves

SpecEditor == Init /\ [][NextEditor]_vars

\* the voice notes under create and updateStatus of two users while time
\* passes, and process called on an id that get refuses
NextStatus ==
  \/ \E user \in Users : Create(user)
  \/ \E caller \in Users, id \in VoiceIds, status \in Statuses,
        transcription \in ClientTranscriptions,
        errorMessage \in ClientErrorMessages :
       UpdateStatus(caller, id, status, transcription, errorMessage)
  \/ \E caller \in Users, id \in VoiceIds :
       Get(caller, id) = None /\ ProcessStart(caller, id)
  \/ Tick

SpecStatus == Init /\ [][NextStatus]_vars

\* the embedding of a node under everything that writes nodes and edges:
\* the direct callers on a graph of their own, and the pipeline on a graph
\* of its own
ClientEmbeddings == {"vec", "vec2"}
EditedContents   == {None, Some("y")}

NextEmbed ==
  \/ /\ voiceNotes = <<>> /\ nextNodeId <= MaxNotes
     /\ \E content \in ClientContents : CreateNode("note", content, GridX, None)
  \/ /\ voiceNotes = <<>>
     /\ \E id \in IssuedNodeIds, content \in EditedContents, x \in ClientXs :
          UpdateNode(id, UpdateArgs(content, x, None))
  \/ /\ voiceNotes = <<>>
     /\ \E id \in IssuedNodeIds, embedding \in ClientEmbeddings :
          UpdateNodeEmbedding(id, embedding)
  \/ voiceNotes = <<>> /\ \E id \in IssuedNodeIds : DeleteNode(id)
  \/ /\ voiceNotes = <<>> /\ nextEdgeId <= MaxNoteEdges
     /\ \E source, target \in IssuedNodeIds : CreateEdge(source, target, None)
  \/ voiceNotes = <<>> /\ \E id \in IssuedEdgeIds : DeleteEdge(id)
  \/ nextNodeId = 1 /\ \E user \in {"u1"} : Create(user)
  \/ Idle /\ \E id \in VoiceIds : ProcessStart("u1", id)
  \/ \E r \in DOMAIN runs :
       \/ SetTranscribing(r)
       \/ Transcribe(r)
       \/ SetProcessing(r)
       \/ Extract(r)
       \/ CreateConceptNode(r) /\ nextNodeId' <= MaxNodes + 1
       \/ Embed(r)
       \/ FindRelated(r)
       \/ Link(r) /\ nextEdgeId' <= MaxEdges + 1
       \/ SetCompleted(r)
       \/ Catch(r)

SpecEmbed == Init /\ [][NextEmbed]_vars

\* ------------------------------------------- the parsers on their own
TitleAlphabet == {"#", " ", "<", ">", "\n", "a"}

\* "<h1>T</h1>\nBody"
TextScenarioC ==
  <<"<", "h", "1", ">", "T", "<", "/", "h", "1", ">", "\n", "B", "o", "d", "y">>

TitleInputs ==
  UNION {[1..k -> TitleAlphabet] : k \in 0..MaxTitleLen} \cup {TextScenarioC}

\* [[a]], [[A]], data-title="a", data-title="B", and the pieces [[, ]], b
\* and the space
LinkTokens ==
  {<<"[", "[", "a", "]", "]">>, <<"[", "[", "A", "]", "]">>,
   DataTitleAttr \o <<"a", "\"">>, DataTitleAttr \o <<"B", "\"">>,
   <<"[", "[">>, <<"]", "]">>, <<"b">>, <<" ">>}

RECURSIVE Flatten(_)
Flatten(tokens) ==
  IF tokens = <<>> THEN <<>> ELSE Head(tokens) \o Flatten(Tail(tokens))

LinkInputs ==
  {Flatten(ts) : ts \in UNION {[1..k -> LinkTokens] : k \in 0..MaxTokens}}

ExtractNoteTitleCall(content) ==
  /\ lastOp' = Call("extractNoteTitle", content, TRUE, ExtractNoteTitle(content))
  /\ UNCHANGED <<editor, now, nodes, edges, nextNodeId, nextEdgeId, voiceNotes, runs,
                 adds, nextRunId, nextAddId>>

ExtractWikiLinksFromContentCall(content) ==
  /\ lastOp' = Call("extractWikiLinksFromContent", content, TRUE,
                    ExtractWikiLinksFromContent(content))
  /\ UNCHANGED <<editor, now, nodes, edges, nextNodeId, nextEdgeId, voiceNotes, runs,
                 adds, nextRunId, nextAddId>>

ExtractWikiLinksCall(content) ==
  /\ lastOp' = Call("extractWikiLinks", content, TRUE, ExtractWikiLinks(content))
  /\ UNCHANGED <<editor, now, nodes, edges, nextNodeId, nextEdgeId, voiceNotes, runs,
                 adds, nextRunId, nextAddId>>

\* the three functions are pure: one call per behaviour shows every result
NextParser ==
  \/ lastOp = NoOp /\ \E content \in TitleInputs : ExtractNoteTitleCall(content)
  \/ lastOp = NoOp /\ \E content \in LinkInputs :
                        ExtractWikiLinksFromContentCall(content)
  \/ lastOp = NoOp /\ \E content \in LinkInputs : ExtractWikiLinksCall(content)

SpecParser == Init /\ [][NextParser]_vars

\* ================================================================ claims
Terminal == {"completed", "error"}

\* an invocation of process ended in the last step; LastRun is its locals
ProcessEnded == lastOp.op = "process" /\ lastOp.run # None
LastRun      == lastOp.run[1]

\* nodes that carry voice note v as sourceId
NodesOf(v) == {n \in DOMAIN nodes : nodes[n].sourceId = v}

IsPrefix(s, t) == Len(s) <= Len(t) /\ \A i \in 1..Len(s) : s[i] = t[i]

\* C1: right after deleteNode(N) returned, no edge has N as source or as
\* target.
C1_DeleteNodeCascades ==
  (lastOp.op = "deleteNode" /\ lastOp.ok) =>
    \A e \in DOMAIN edges :
      edges[e].source # lastOp.id /\ edges[e].target # lastOp.id

\* deleteNode returned for a node that had outgoing and incoming edges
C1_Witness ==
  /\ lastOp.op = "deleteNode" /\ lastOp.ok
  /\ lastOp.nOut >= 1 /\ lastOp.nIn >= 1

\* C2: the statuses one invocation of process writes are, in order,
\* transcribing, then processing (only with a transcript in hand), then
\* exactly one of completed or error; an invocation that has written
\* completed or error has ended, and one that returned wrote completed after
\* processing, one that threw from the catch clause wrote error last.
HappyWrites == <<"transcribing", "processing", "completed">>
EarlyError  == <<"transcribing", "error">>
LateError   == <<"transcribing", "processing", "error">>

WritesInOrder(run) ==
  /\ \/ IsPrefix(run.writes, HappyWrites)
     \/ IsPrefix(run.writes, EarlyError)
     \/ IsPrefix(run.writes, LateError)
  /\ (Len(run.writes) >= 2 /\ run.writes[2] = "processing")
       => run.transcription # None
  /\ run.pc = "done"   => run.writes = HappyWrites
  /\ run.pc = "failed" => run.writes \in {EarlyError, LateError}
  /\ ~Ended(run) => \A i \in 1..Len(run.writes) : run.writes[i] \notin Terminal

C2_StatusWritesInOrder ==
  /\ \A r \in DOMAIN runs : WritesInOrder(runs[r])
  /\ ProcessEnded => WritesInOrder(LastRun)

\* an invocation failed after its transcript was stored
C2_Witness == ProcessEnded /\ LastRun.writes = LateError

\* C3: when the audio fetch or the transcription call fails, the invocation
\* leaves the voice note in status error with a non-empty errorMessage and
\* has created no node and no edge.
C3_TranscriptionFailure ==
  (ProcessEnded /\ LastRun.failedAt = "transcribe") =>
    LET v == LastRun.voiceNoteId IN
    /\ voiceNotes[v].status = "error"
    /\ voiceNotes[v].errorMessage # None
    /\ voiceNotes[v].errorMessage[1] # ""
    /\ LastRun.created = <<>>
    /\ LastRun.newEdges = <<>>
    /\ NodesOf(v) = LastRun.before

\* the Whisper call was made and failed
C3_Witness ==
  ProcessEnded /\ LastRun.failedAt = "transcribe" /\ LastRun.nTranscribe = 1

\* C4: when transcription succeeds and the extraction call fails, the voice
\* note ends in status error, its transcription is the transcript this
\* invocation stored, and the invocation has created no node.
C4_ExtractionFailure ==
  (ProcessEnded /\ LastRun.failedAt = "extract") =>
    LET v == LastRun.voiceNoteId IN
    /\ voiceNotes[v].status = "error"
    /\ LastRun.transcription # None
    /\ voiceNotes[v].transcription = LastRun.transcription
    /\ LastRun.created = <<>>
    /\ NodesOf(v) = LastRun.before

\* the extraction call failed in an invocation that stored a transcript
C4_Witness ==
  ProcessEnded /\ LastRun.failedAt = "extract" /\ LastRun.nExtract = 1

\* C5: when the node-create, embed or link step of the k-th concept fails,
\* the invocation ends with status error and everything it wrote before is
\* still there: one node per concept 1..k-1 (and the k-th when it had been
\* created), and every edge it created.
PerConceptSteps == {"createNode", "embed", "findRelated", "link"}

C5_PartialWritesStay ==
  (ProcessEnded /\ LastRun.failedAt \in PerConceptSteps) =>
    LET v == LastRun.voiceNoteId
        k == LastRun.idx
    IN
    /\ voiceNotes[v].status = "error"
    /\ Len(LastRun.created) = IF LastRun.failedAt = "createNode" THEN k - 1 ELSE k
    /\ \A i \in 1..Len(LastRun.created) :
         /\ LastRun.created[i] \in DOMAIN nodes
         /\ nodes[LastRun.created[i]].content = ComposeContent(LastRun.concepts[i])
    /\ \A e \in Range(LastRun.newEdges) :
         e \in DOMAIN edges /\ edges[e].source \in Range(LastRun.created)

\* the second concept failed after the first had got its node and an edge
C5_Witness ==
  /\ ProcessEnded /\ LastRun.failedAt \in PerConceptSteps
  /\ LastRun.idx = 2
  /\ Len(LastRun.newEdges) >= 1

\* what holds of every invocation that returned: status completed, one node
\* per concept in concept order, each a note from this voice note
SuccessfulRun(run) ==
  LET v == run.voiceNoteId IN
  /\ voiceNotes[v].status = "completed"
  /\ Len(run.created) = Len(run.concepts)
  /\ \A i \in 1..Len(run.created) :
       LET n == run.created[i] IN
       /\ n \in DOMAIN nodes
       /\ nodes[n].type = "note"
       /\ nodes[n].sourceType = "voice"
       /\ nodes[n].sourceId = v
       /\ nodes[n].content = ComposeContent(run.concepts[i])
       /\ \A k \in 1..(i - 1) : run.created[k] < n
  /\ NodesOf(v) = run.before \cup Range(run.created)

\* nodes that were there before the invocation created its own
PreExisting(run) == DOMAIN nodes \ Range(run.created)

\* C6 as stated: ... and with one concept and no pre-existing node of kind
\* note the invocation creates exactly 1 note and 0 edges.
C6_Original ==
  (ProcessEnded /\ LastRun.pc = "done") =>
    /\ SuccessfulRun(LastRun)
    /\ (/\ Len(LastRun.concepts) = 1
        /\ \A n \in PreExisting(LastRun) : nodes[n].type # "note")
         => Len(LastRun.created) = 1 /\ LastRun.newEdges = <<>>

\* C6: when every step succeeds and extraction returned n concepts, the
\* voice note ends completed and the invocation has created exactly n nodes,
\* one per concept in concept order, each of kind note with sourceType voice
\* and this voice note as sourceId; with n = 1 and no pre-existing node of
\* any kind it creates exactly 1 note and 0 edges.
C6_SuccessfulRun ==
  (ProcessEnded /\ LastRun.pc = "done") =>
    /\ SuccessfulRun(LastRun)
    /\ (Len(LastRun.concepts) = 1 /\ PreExisting(LastRun) = {})
         => Len(LastRun.created) = 1 /\ LastRun.newEdges = <<>>

\* an invocation with one concept returned on a graph that was empty
C6_Witness ==
  /\ ProcessEnded /\ LastRun.pc = "done"
  /\ Len(LastRun.concepts) = 1
  /\ PreExisting(LastRun) = {}

\* C7 as stated: once a voice note is completed or error, no step changes
\* its status.
C7_Original ==
  [][\A v \in DOMAIN voiceNotes :
       voiceNotes[v].status \in Terminal
         => voiceNotes'[v].status = voiceNotes[v].status]_vars

\* C7: the status of a completed or error voice note changes only through a
\* new call: a direct updateStatus, or the first write (transcribing) of
\* another invocation of process; the invocation that wrote completed or
\* error writes nothing after it.
C7_TerminalLeftOnlyByNewCall ==
  [][\A v \in DOMAIN voiceNotes :
       (voiceNotes[v].status \in Terminal
          /\ voiceNotes'[v].status # voiceNotes[v].status)
       => \/ lastOp'.op = "updateStatus" /\ lastOp'.ok /\ lastOp'.id = v
          \/ \E r \in DOMAIN runs \cap DOMAIN runs' :
               /\ runs[r].voiceNoteId = v
               /\ runs[r].writes = <<>>
               /\ runs'[r].writes = <<"transcribing">>
               /\ voiceNotes'[v].status = "transcribing"]_vars

\* a voice note that had ended in error is being processed again
C7_Witness ==
  \E r \in DOMAIN runs :
    LET v == runs[r].voiceNoteId IN
    /\ runs[r].writes = <<"transcribing">>
    /\ voiceNotes[v].status = "transcribing"
    /\ voiceNotes[v].errorMessage # None

\* C8: an invocation on a voice note that earlier invocations have processed
\* starts over whatever the status: it writes transcribing first and calls
\* transcription and extraction again; the nodes of the earlier invocations
\* are neither removed nor reused, so after it returns the nodes with that
\* sourceId are those that were there plus the ones it created.
C8_ReinvocationStartsOver ==
  /\ \A r \in DOMAIN runs :
       LET run == runs[r] IN
       /\ run.before \subseteq DOMAIN nodes
       /\ run.before \cap Range(run.created) = {}
       /\ run.pc = "transcribe"
            => voiceNotes[run.voiceNoteId].status = "transcribing"
  /\ (ProcessEnded /\ LastRun.pc = "done") =>
       LET v == LastRun.voiceNoteId IN
       /\ LastRun.writes[1] = "transcribing"
       /\ LastRun.nTranscribe = 1 /\ LastRun.nExtract = 1
       /\ LastRun.before \cap Range(LastRun.created) = {}
       /\ NodesOf(v) = LastRun.before \cup Range(LastRun.created)
       /\ Cardinality(NodesOf(v)) =
            Cardinality(LastRun.before) + Len(LastRun.created)

\* a second invocation returned, both having created nodes
C8_Witness ==
  /\ ProcessEnded /\ LastRun.pc = "done"
  /\ LastRun.before # {}
  /\ Len(LastRun.created) >= 1

\* C9: a failure inside the try block is stored as status error with the
\* failure's message, the same failure is thrown to the caller, and the
\* invocation makes no further collaborator call: once it holds an error it
\* is in the catch clause, and it calls transcription and extraction at most
\* once each.
C9_FailureStoredAndRethrown ==
  /\ \A r \in DOMAIN runs :
       /\ runs[r].nTranscribe <= 1 /\ runs[r].nExtract <= 1
       /\ runs[r].error # None => runs[r].pc = "catch"
  /\ (ProcessEnded /\ LastRun.pc = "failed") =>
       LET v == LastRun.voiceNoteId IN
       /\ voiceNotes[v].status = "error"
       /\ voiceNotes[v].errorMessage = Some(LastRun.error[1].message)
       /\ LastRun.thrown = LastRun.error
       /\ LastRun.nTranscribe <= 1 /\ LastRun.nExtract <= 1

\* an invocation failed after both collaborators had been called
C9_Witness ==
  /\ ProcessEnded /\ LastRun.pc = "failed"
  /\ LastRun.nTranscribe = 1 /\ LastRun.nExtract = 1

\* C10: no edge created by similarity linking (every edge of SpecSolo is one)
\* runs from a node to itself.
C10_NoSelfLoopFromLinking ==
  \A e \in DOMAIN edges : edges[e].source # edges[e].target

\* the pipeline has skipped its own node at the head of related.nodes and is
\* about to link, on a graph that holds an edge made by handleAddToCanvas
C10_Witness ==
  /\ \E r \in DOMAIN runs :
       /\ runs[r].pc = "link"
       /\ runs[r].j >= 2
       /\ runs[r].related[1]._id = runs[r].nodeId
  /\ \E e \in DOMAIN edges : edges[e].label = CanvasLabel(874)

\* the edges among newEdges that start at n; what one invocation may have
\* created so far
EdgesFrom(newEdges, n) == {e \in Range(newEdges) : edges[e].source = n}

\* the notes the canvas held before the invocation
Neighbours == 1..MaxNeighbours

\* the locals of an invocation of process: its edges start at nodes it
\* created, at most RelatedLimit at each, and inside the loop over
\* related.nodes the node being linked has one edge for each entry already
\* gone through that passed the test
LinkedWithinLimit(run) ==
  /\ \A e \in Range(run.newEdges) : edges[e].source \in Range(run.created)
  /\ \A n \in Range(run.created) :
       Cardinality(EdgesFrom(run.newEdges, n)) <= RelatedLimit
  /\ run.pc = "link" =>
       /\ run.j <= Len(run.related)
       /\ Cardinality(EdgesFrom(run.newEdges, run.nodeId))
            = Cardinality({k \in 1..(run.j - 1) :
                             LinkFilter(run.related[k], run.nodeId, run.created)})

\* the same for the locals of handleAddToCanvas
AddLinkedWithinLimit(add) ==
  /\ \A e \in Range(add.newEdges) : edges[e].source = add.nodeId
  /\ Len(add.newEdges) <= RelatedLimit
  /\ add.pc = "link" =>
       /\ add.j <= Len(add.related)
       /\ Len(add.newEdges)
            = Cardinality({k \in 1..(add.j - 1) :
                             CanvasLinkFilter(add.related[k], add.nodeId)})

\* C11: one similarity-linking invocation with limit RelatedLimit creates at
\* most RelatedLimit edges for a new node, and all of them have the new node
\* as source. On a canvas that held MaxNeighbours embedded notes and no edge
\* before the invocation: every edge starts at a node the invocation
\* created, no node is the source of more than RelatedLimit edges, and the
\* invocation creates one edge for each entry of related.nodes that passes
\* its test, never two.
C11_AtMostKEdgesFromNewNode ==
  /\ \A e \in DOMAIN edges : edges[e].source \in DOMAIN nodes \ Neighbours
  /\ \A n \in DOMAIN nodes : Cardinality(SourceEdges(n)) <= RelatedLimit
  /\ \A r \in DOMAIN runs : LinkedWithinLimit(runs[r])
  /\ ProcessEnded => LinkedWithinLimit(LastRun)
  /\ \A a \in DOMAIN adds : AddLinkedWithinLimit(adds[a])

\* process returned after it linked a new node to RelatedLimit neighbours,
\* while a further embedded note was there to link to and a further edge id
\* was there to take
C11_Witness ==
  /\ ProcessEnded /\ LastRun.pc = "done"
  /\ nextEdgeId <= MaxLinkEdges
  /\ \E n \in Range(LastRun.created) :
       /\ Cardinality(EdgesFrom(LastRun.newEdges, n)) = RelatedLimit
       /\ \E m \in Embedded \ {n} :
            \A e \in SourceEdges(n) : edges[e].target # m

\* C12 as stated: when the neighbour search for a concept returned a node
\* the same invocation created for an earlier concept, the invocation, once
\* it has returned, has created an edge from the later node to the earlier.
C12_IntraBatchLinked ==
  (ProcessEnded /\ LastRun.pc = "done") =>
    \A pair \in LastRun.intraBatch :
      \E e \in Range(LastRun.newEdges) :
        edges[e].source = pair[1] /\ edges[e].target = pair[2]

\* the entries of a backlink list with the given source and label
EntriesWith(list, source, label) ==
  {i \in DOMAIN list : list[i]._id = source /\ list[i].edgeLabel = label}

\* C13: getBacklinks(N) has exactly one entry per edge whose target is N and
\* whose source node exists, the entry being that source with that edge's
\* label: for every source and label there are as many entries as such
\* edges; an edge whose source is gone gives no entry.
C13_BacklinksOnePerLiveEdge ==
  \A n \in IssuedNodeIds :
    LET list == GetBacklinks(n) IN
    /\ Len(list) = Cardinality({e \in TargetEdges(n) :
                                  edges[e].source \in DOMAIN nodes})
    /\ \A i \in DOMAIN list : list[i]._id \in DOMAIN nodes
    /\ \A source \in IssuedNodeIds, label \in ClientLabels :
         Cardinality(EntriesWith(list, source, label)) =
           IF source \in DOMAIN nodes
             THEN Cardinality({e \in TargetEdges(n) :
                                 /\ edges[e].source = source
                                 /\ edges[e].label = label})
             ELSE 0

\* two parallel edges from one node give two entries
C13_Witness ==
  \E n \in IssuedNodeIds :
    /\ Len(GetBacklinks(n)) = 2
    /\ GetBacklinks(n)[1]._id = GetBacklinks(n)[2]._id

\* whether content holds the delimited reference [[title]], in any letter case
ContainsDelimited(content, title) ==
  LET ref == <<"[", "[">> \o ToLowerCase(title) \o <<"]", "]">>
      low == ToLowerCase(content)
  IN  \E i \in 1..Len(low) :
        i + Len(ref) - 1 <= Len(low) /\ SubSeq(low, i, i + Len(ref) - 1) = ref

OutgoingLinksHold(n, title) ==
  /\ nodes[n].outgoingLinks # None
  /\ \E i \in DOMAIN nodes[n].outgoingLinks[1] :
       ToLowerCase(nodes[n].outgoingLinks[1][i]) = ToLowerCase(title)

BacklinkIds(title) ==
  {GetWikiLinkBacklinks(title)[i]._id : i \in DOMAIN GetWikiLinkBacklinks(title)}

NoDuplicates(list) ==
  \A i, j \in DOMAIN list : i # j => list[i] # list[j]

\* C14 as stated: the notes returned are exactly those whose outgoingLinks
\* holds title or whose content holds [[title]], each once.
C14_Original ==
  \A title \in QueryTitles :
    /\ BacklinkIds(title) =
         {n \in Notes : \/ OutgoingLinksHold(n, title)
                        \/ ContainsDelimited(nodes[n].content, title)}
    /\ NoDuplicates(GetWikiLinkBacklinks(title))

\* C14: for a non-empty title the notes returned are exactly the nodes of
\* kind note whose outgoingLinks holds title in any letter case or whose
\* content refers to title in either form, [[title]] or data-title="title",
\* each once and with its own title; for the empty title nothing is returned.
C14_TextualBacklinks ==
  \A title \in QueryTitles :
    LET list == GetWikiLinkBacklinks(title)
        refs(n) == Range(RawCaptures(nodes[n].content, 1))
                     \cup Range(HtmlCaptures(nodes[n].content, 1))
    IN
    /\ title = <<>> => list = <<>>
    /\ title # <<>> =>
         BacklinkIds(title) =
           {n \in Notes :
              \/ OutgoingLinksHold(n, title)
              \/ \E ref \in refs(n) : ToLowerCase(ref) = ToLowerCase(title)}
    /\ NoDuplicates(list)
    /\ \A i \in DOMAIN list :
         list[i].title = ExtractNoteTitle(nodes[list[i]._id].content)

\* a note is returned that holds the title both in outgoingLinks and in its
\* content, beside a node of another kind with the same reference
C14_Witness ==
  /\ \E n \in Notes :
       /\ OutgoingLinksHold(n, <<"a">>)
       /\ ContainsDelimited(nodes[n].content, <<"a">>)
       /\ Len(GetWikiLinkBacklinks(<<"a">>)) = 1
  /\ \E m \in DOMAIN nodes :
       nodes[m].type = "text" /\ ContainsDelimited(nodes[m].content, <<"a">>)

\* the notes whose extractTitle is title in any letter case
TitledNotes(title) ==
  {n \in Notes :
     ToLowerCase(ExtractNoteTitle(nodes[n].content)) = ToLowerCase(title)}

\* C15 as stated: findNodeByTitle(title) returns a note whose extractTitle
\* equals title in any letter case whenever there is one, and none exactly
\* when there is none.
C15_FindAgreesWithExtractTitle ==
  \A title \in QueryTitles :
    /\ TitledNotes(title) # {} =>
         /\ FindNoteByTitle(title) # None
         /\ FindNoteByTitle(title)[1] \in TitledNotes(title)
    /\ TitledNotes(title) = {} => FindNoteByTitle(title) = None

\* C16 as stated: resolveOrCreate(title) returns a note; one it created
\* holds the heading stub for title; and afterwards findNodeByTitle(title)
\* finds a note, the created one if one was created, so that a second call
\* creates nothing.
C16_NavigateOrCreate ==
  (lastOp.op = "handleNavigation") =>
    LET title == lastOp.arg
        id == lastOp.out.id
    IN
    /\ id \in Notes
    /\ lastOp.out.created => nodes[id].content = HeadingStub(title)
    /\ FindNoteByTitle(title) # None
    /\ lastOp.out.created => FindNoteByTitle(title) = Some(id)

\* C17: extractTitle never returns the empty string, returns "Untitled" for
\* the empty and the whitespace-only content and whenever the first line is
\* empty once tags and the heading marker are removed, returns a title
\* without surrounding whitespace otherwise, and returns "T" for
\* "<h1>T</h1>\nBody".
C17_ExtractTitleNeverEmpty ==
  (lastOp.op = "extractNoteTitle") =>
    LET content == lastOp.arg
        title == lastOp.out
    IN
    /\ title # <<>>
    /\ (\A i \in DOMAIN content : content[i] \in Whitespace) => title = Untitled
    /\ Trim(StripHeading(StripTags(FirstLine(content)))) = <<>> => title = Untitled
    /\ title[1] \notin Whitespace /\ title[Len(title)] \notin Whitespace
    /\ content = TextScenarioC => title = <<"T">>

\* extractTitle was applied to "<h1>T</h1>\nBody"
C17_Witness ==
  /\ lastOp.op = "extractNoteTitle"
  /\ lastOp.arg = TextScenarioC
  /\ lastOp.out = <<"T">>

\* C18 as stated: every element of extractReferencedTitles(content) is
\* lower-cased, no element occurs twice, and the elements are exactly the
\* titles the two patterns capture.
C18_LowerCasedNoDuplicates ==
  (lastOp.op = "extractWikiLinksFromContent") =>
    LET links == lastOp.out
        content == lastOp.arg
    IN
    /\ \A i \in DOMAIN links : links[i] = ToLowerCase(links[i])
    /\ NoDuplicates(links)
    /\ Range(links) =
         {ToLowerCase(t) : t \in Range(RawCaptures(content, 1))
                                   \cup Range(HtmlCaptures(content, 1))}

\* the stored outgoingLinks of a node, an absent field read as the empty list
StoredLinks(n) ==
  IF nodes[n].outgoingLinks = None THEN <<>> ELSE nodes[n].outgoingLinks[1]

\* C19 as stated: the stored outgoingLinks of every node equals
\* extractReferencedTitles of its stored content.
C19_OutgoingLinksFollowContent ==
  \A n \in DOMAIN nodes :
    StoredLinks(n) = ExtractWikiLinksFromContent(nodes[n].content)

\* C20: a step in which updateNode(id, partial) returns sets each given
\* field to the given value and updatedAt to the time of the call, keeps
\* every other field of the node, and changes no other node and no edge.
C20_UpdateNodeFrame ==
  [][(lastOp'.op = "updateNode" /\ lastOp'.ok) =>
       LET id == lastOp'.arg.id
           args == lastOp'.arg.args
       IN
       /\ edges' = edges
       /\ DOMAIN nodes' = DOMAIN nodes
       /\ \A n \in DOMAIN nodes \ {id} : nodes'[n] = nodes[n]
       /\ nodes'[id].type = nodes[id].type
       /\ nodes'[id].sourceType = nodes[id].sourceType
       /\ nodes'[id].sourceId = nodes[id].sourceId
       /\ nodes'[id].embedding = nodes[id].embedding
       /\ nodes'[id].content =
            IF args.content = None THEN nodes[id].content ELSE args.content[1]
       /\ nodes'[id].x = IF args.x = None THEN nodes[id].x ELSE args.x[1]
       /\ nodes'[id].outgoingLinks =
            IF args.outgoingLinks = None THEN nodes[id].outgoingLinks
            ELSE args.outgoingLinks
       /\ nodes'[id].updatedAt = now]_vars

\* updateNode with no field given returned, later than the node was created,
\* on a graph with another node and an edge
C20_Witness ==
  /\ lastOp.op = "updateNode" /\ lastOp.ok
  /\ lastOp.arg.args = UpdateArgs(None, None, None)
  /\ now > 0
  /\ nodes[lastOp.arg.id].updatedAt = now
  /\ Cardinality(DOMAIN nodes) >= 2
  /\ edges # <<>>

\* C21 as stated: createEdge with source equal to target fails and creates
\* no edge, so no edge of the table is a self-loop.
C21_SelfLoopRejected ==
  \A e \in DOMAIN edges : edges[e].source # edges[e].target

\* C22: deleteNode(id) on an id that names no node fails and leaves the node
\* set and the edge set as they were, the edges that carry id included.
C22_DeleteMissingNodeFails ==
  [][(lastOp'.op = "deleteNode" /\ lastOp'.id \notin DOMAIN nodes) =>
       /\ ~lastOp'.ok
       /\ nodes' = nodes
       /\ edges' = edges]_vars

\* deleteNode failed on an id that names no node while an edge carries it
C22_Witness ==
  /\ lastOp.op = "deleteNode" /\ ~lastOp.ok
  /\ lastOp.id \notin DOMAIN nodes
  /\ SourceEdges(lastOp.id) \cup TargetEdges(lastOp.id) # {}

\* C23 as stated: the source and the target of every edge are ids of
\* existing nodes.
C23_EdgesReferenceNodes ==
  \A e \in DOMAIN edges :
    edges[e].source \in DOMAIN nodes /\ edges[e].target \in DOMAIN nodes

\* C24 as stated: the cascade is not atomic. A deleteNode that fails between
\* two of its deletions (the node is there, so the failure came after the
\* first ctx.db.delete of an edge) keeps the deletions made before the
\* failure: the edges table is not what it was before the call.
C24_FailureKeepsEarlierDeletions ==
  [][(/\ lastOp'.op = "deleteNode"
      /\ ~lastOp'.ok
      /\ lastOp'.id \in DOMAIN nodes)
       => DOMAIN edges' # DOMAIN edges]_vars

\* C25: the embedding of a node, once set, changes only in a step that is
\* the embed operation on that node (it patches that embedding and nothing
\* else); updateNode with any fields, a step that creates or deletes an edge
\* and the deletion of another node leave every embedding as it was; and
\* the pipeline's embed step acts on a node that has no embedding yet.
C25_EmbeddingChangedOnlyByEmbed ==
  [][/\ \A n \in DOMAIN nodes \cap DOMAIN nodes' :
          (nodes[n].embedding # None
             /\ nodes'[n].embedding # nodes[n].embedding) =>
            /\ nodes' = [nodes EXCEPT ![n].embedding = nodes'[n].embedding]
            /\ edges' = edges
            /\ lastOp'.op \notin {"updateNode", "deleteNode"}
     /\ (lastOp'.op \in {"updateNode", "deleteNode"} \/ edges' # edges) =>
          \A n \in DOMAIN nodes \cap DOMAIN nodes' :
            nodes'[n].embedding = nodes[n].embedding
     /\ \A r \in DOMAIN runs :
          (runs[r].pc = "embed" /\ nodes' # nodes) =>
            nodes[runs[r].nodeId].embedding = None]_vars

\* updateNode replaced the content of a node that carries an embedding set
\* a second time, on a graph with an edge
C25_Witness ==
  /\ lastOp.op = "updateNode" /\ lastOp.ok
  /\ lastOp.arg.args.content # None
  /\ nodes[lastOp.arg.id].embedding = Some("vec2")
  /\ edges # <<>>

\* C26: updateStatus by a caller on an id that names no voice note, or a
\* voice note of another user, fails and leaves every voice note (status,
\* transcription, errorMessage, updatedAt) as it was; process called on
\* such an id throws before it has written any status.
C26_NotFoundLeavesVoiceNotes ==
  [][\A caller \in Users, id \in VoiceIds :
       (id \notin DOMAIN voiceNotes \/ voiceNotes[id].userId # caller) =>
         /\ (\E status \in Statuses : UpdateStatus(caller, id, status, None, None)) =>
              /\ lastOp'.op = "updateStatus" /\ ~lastOp'.ok
              /\ voiceNotes' = voiceNotes
         /\ ProcessStart(caller, id) =>
              /\ lastOp'.op = "process" /\ ~lastOp'.ok
              /\ lastOp'.run[1].pc = "rejected"
              /\ lastOp'.run[1].writes = <<>>
              /\ voiceNotes' = voiceNotes]_vars

\* updateStatus failed on a voice note that exists, so for a caller who
\* does not own it, later than the voice note was last written
C26_Witness ==
  /\ lastOp.op = "updateStatus" /\ ~lastOp.ok
  /\ lastOp.id \in DOMAIN voiceNotes
  /\ voiceNotes[lastOp.id].updatedAt < now

\* C27: when process runs on distinct voice notes at the same time, in every
\* interleaving of their steps a step changes a voice note only if it is a
\* step of the invocation on that voice note, and a step is of one
\* invocation; an invocation that returns leaves its voice note completed,
\* one that fails in the try block leaves it in error with the message of
\* its own failure; and every node created is created by the step of an
\* invocation and carries the id of that invocation's voice note as sourceId.
C27_ConcurrentRunsIndependent ==
  [][/\ \A v \in DOMAIN voiceNotes :
          voiceNotes'[v] # voiceNotes[v] =>
            \E r \in DOMAIN runs :
              /\ runs[r].voiceNoteId = v
              /\ r \notin DOMAIN runs' \/ runs'[r] # runs[r]
              /\ \A q \in DOMAIN runs \ {r} :
                   q \in DOMAIN runs' /\ runs'[q] = runs[q]
     /\ (lastOp'.op = "process" /\ lastOp' # lastOp) =>
          LET run == lastOp'.run[1]
              doc == voiceNotes'[run.voiceNoteId]
          IN  /\ run.pc = "done" =>
                   doc.status = "completed" /\ doc.errorMessage = None
              /\ run.pc = "failed" =>
                   /\ doc.status = "error"
                   /\ doc.errorMessage = Some(CatchMessage(run.error[1]))
     /\ \A n \in DOMAIN nodes' \ DOMAIN nodes :
          \E r \in DOMAIN runs :
            /\ runs[r].pc = "createNode"
            /\ runs'[r].nodeId = n
            /\ nodes'[n].sourceType = "voice"
            /\ nodes'[n].sourceId = runs[r].voiceNoteId]_vars

\* two invocations are under way: the one on voice note 1 has created a node
\* and is in its catch clause, the one on voice note 2 is about to link its
\* node to that node
C27_Witness ==
  \E r, q \in DOMAIN runs :
    /\ runs[r].voiceNoteId = 1 /\ runs[q].voiceNoteId = 2
    /\ runs[r].pc = "catch" /\ runs[r].created # <<>>
    /\ runs[q].pc = "link"
    /\ runs[q].related[runs[q].j]._id \in Range(runs[r].created)

\* C28 as stated: a save after the timeout stores the text of the editor
\* under the id of the note that text was loaded from and edited in.
C28_SaveGoesToOwnNote ==
  [][(Len(editor'.saves) = Len(editor.saves) + 1) =>
       editor'.saves[Len(editor'.saves)].id = editor.owner]_vars

\* C30 as stated: the navigation handler issues at most one createNode per
\* click on a wiki-link.
C30_OneCreatePerClick == editor.issued <= 1

\* C29 as stated: after createDailyNote(d), findDailyNote(d) returns a note,
\* and it is the created one when no note of that date was there before.
C29_DailyNoteRoundTrip ==
  (lastOp.op = "createDailyNote") =>
    /\ FindDailyNote(lastOp.arg) # None
    /\ (\A n \in Notes \ {lastOp.out[1]} :
          ExtractNoteTitle(nodes[n].content) # lastOp.arg)
         => FindDailyNote(lastOp.arg) = lastOp.out

====
